---- MODULE Spec2Model ----
(***************************************************************************)
(* Env Switch (leesama/env-change): the navigation handoff of              *)
(* src/content/switcher.ts.  switchEnvironment stages a pending-fill       *)
(* payload in chrome.storage.local and navigates; checkAndFillPending, run *)
(* by every page load, reads the payload and replays it against the DOM    *)
(* through waitForElement / fillField / fillAllFields / clickLoginButton.  *)
(*                                                                         *)
(* Time is the millisecond clock behind Date.now() and setTimeout.  The     *)
(* program only ever subtracts two instants, so instants are kept relative *)
(* to the present: Date.now() reads 0, an instant d ms ahead is d, one d   *)
(* ms back is -d, and the passing of d ms moves every kept instant by -d.  *)
(* A timer callback runs at its deadline.  chrome.storage.local serialises *)
(* its requests, so set and remove take effect where they are issued and a *)
(* get reads the value where it is issued; only the delivery of the get    *)
(* callback is deferred.  A navigation commits within the instant at which *)
(* it is issued: callbacks of the leaving page that are due at that        *)
(* instant may still run before the new document loads, later ones do not. *)
(***************************************************************************)
EXTENDS Integers, Sequences, FiniteSets, TLC

\* ------------------------------------------------------------------ bounds
MaxFields == 2        \* longest field list of an environment
MaxSwitches == 1      \* switchEnvironment calls in one behaviour
MaxLoads == 2         \* page loads (navigations, reloads) in one behaviour
MaxSessions == 2      \* startSelecting calls in one behaviour
MaxPreviews == 2      \* preview highlights whose removal timer is pending
MaxPatterns == 2      \* longest allowedDomains list
MaxNodes == 2         \* elements inside the body of a document
MaxOps == 2           \* configuration operations in one behaviour

\* ------------------------------------------------- constants of the program
FRESHNESS == 10000    \* switcher.ts:169
SETTLE_DELAY == 500   \* switcher.ts:178
FIELD_DELAY == 100    \* switcher.ts:103
CLICK_DELAY == 300    \* switcher.ts:192
WAIT_TIMEOUT == 5000  \* switcher.ts:11

Pages == {1}          \* the tab; a page load replaces its execution context

\* --------------------------------------------------------------- the DOM
\* An element is named by the one selector that resolves to it.
\*   "#user"  an INPUT                     "#wrap"  a DIV holding an INPUT
\*   "#text"  a DIV holding no control     "#login" the login BUTTON
\* Elements that no selector names do not show in dom; "#other" is one.
\* The selectors "" (the default of a new field, App.tsx:20-23) and "#login["
\* are not valid selector syntax: document.querySelector throws on them.
FieldSelectors == <<"#user", "#wrap", "#text", "">>
ButtonSelectors == {"#login"}
BadButtonSelectors == {"#login[", ""}
Elements == {"#user", "#wrap", "#text", "#login"}

tagName(el) ==
  CASE el = "#user" -> "INPUT"
    [] el = "#wrap:input" -> "INPUT"
    [] el = "#login" -> "BUTTON"
    [] OTHER -> "DIV"

\* el.querySelector("input, textarea"): an Option, <<>> is null
innerInput(el) == IF el = "#wrap" THEN <<"#wrap:input">> ELSE <<>>

IsValidSelector(s) == s \notin {"", "#login["}

\* document.querySelector(selector) on the element set d
querySelector(d, s) ==
  IF ~IsValidSelector(s) THEN [throws |-> TRUE, el |-> <<>>]
  ELSE IF s \in d THEN [throws |-> FALSE, el |-> <<s>>]
  ELSE [throws |-> FALSE, el |-> <<>>]

\* ------------------------------------------------------------------ JSON
\* An object is a record of Options: <<>> is undefined, <<v>> is the value v.
\* JSON.stringify writes the properties in their order and drops those whose
\* value is undefined; the text is the sequence of <<key, value>> pairs.
KeyOrder == <<"envId", "fields", "loginButtonSelector", "timestamp">>

JSONStringify(obj) ==
  LET all == [i \in 1..Len(KeyOrder) |-> <<KeyOrder[i], obj[KeyOrder[i]]>>]
      kept == SelectSeq(all, LAMBDA pr : pr[2] # <<>>)
  IN [i \in 1..Len(kept) |-> <<kept[i][1], kept[i][2][1]>>]

\* JSON.parse builds the object that has exactly the properties of the text.
JSONParse(text) ==
  [k \in {text[i][1] : i \in DOMAIN text} |->
     text[CHOOSE i \in DOMAIN text : text[i][1] = k][2]]

\* o.k: reading a missing property is undefined
Prop(o, k) == IF k \in DOMAIN o THEN <<o[k]>> ELSE <<>>

\* values of chrome.storage.local["env-switch-pending-fill"]
NoValue == [t |-> "undefined"]
Str(text) == [t |-> "string", json |-> text]

\* ----------------------------------------------------------- environments
\* The field lists: the sublists of FieldSelectors of at most MaxFields
\* selectors (increasing positions, so that no selector repeats).
FieldSeqs ==
  LET Sub(n) == {f \in [1..n -> 1..Len(FieldSelectors)] :
                   \A i \in 1..(n - 1) : f[i] < f[i + 1]}
  IN UNION {{[i \in 1..n |-> FieldSelectors[f[i]]] : f \in Sub(n)} :
              n \in 0..MaxFields}

\* FieldConfig: id and value follow the position, the selector varies
FieldConfigs(sels) ==
  [i \in 1..Len(sels) |-> [id |-> i, selector |-> sels[i], value |-> i]]

\* EnvConfig as read from the configuration.  importConfig (storage.ts:125-136)
\* only checks that environments is an array, so an imported environment may
\* lack fields; handleSaveEnv (App.tsx:252-254) stores an empty
\* loginButtonSelector as undefined, an import may keep "".
\* A button selector that is malformed or empty comes with at most one field.
Envs ==
  {[id |-> <<"env">>, fields |-> f, loginButtonSelector |-> b] :
     f \in {<<>>} \cup {<<FieldConfigs(s)>> : s \in FieldSeqs},
     b \in {<<>>} \cup {<<s>> : s \in ButtonSelectors}}
  \cup
  {[id |-> <<"env">>, fields |-> f, loginButtonSelector |-> <<b>>] :
     f \in {<<>>} \cup {<<FieldConfigs(s)>> : s \in {t \in FieldSeqs : Len(t) <= 1}},
     b \in BadButtonSelectors}

\* Date.now(): the present instant
now == 0

VARIABLES
  env,            \* the environment of the configuration
  store,          \* chrome.storage.local["env-switch-pending-fill"]
  storeSw,        \* history: number of the switch that wrote store (0: none)
  switches,       \* switchEnvironment calls so far
  loads,          \* page loads so far
  ctx,            \* per page: the execution context of the content script
  dom,            \* per page: elements of the document
  localStorage,   \* per page: keys of window.localStorage
  sessionStorage, \* per page: keys of window.sessionStorage
  navPending,     \* per page: window.location.href assigned, not yet loaded
  applied,        \* history: switches whose payload an earlier load applied
  picker,         \* the element picker (selector.ts) and the page it works on
  matcher,        \* a call of isCurrentDomainAllowed: inputs and result
  synth,          \* a call of generateSelector: document, element, result
  config          \* chrome.storage.local["env-switch-config"] and its callers

vars == <<env, store, storeSw, switches, loads, ctx, dom, localStorage,
          sessionStorage, navPending, applied, picker, matcher, synth,
          config>>

\* --------------------------------------------------- the content script
\* One entry of a context's log of effects on the page: the calls and returns
\* of fillField ("start", "end" with value 1 for true) and what it and
\* clickLoginButton do to an element.
Ev(op, field, target, value) ==
  [op |-> op, field |-> field, target |-> target, value |-> value]

\* input.dispatchEvent(new Event(type, { bubbles: true })) for field i
\* (switcher.ts:84-89)
dispatchEvent(type, field, target) ==
  [op |-> type, field |-> field, target |-> target, value |-> 0,
   bubbles |-> TRUE]

\* The context of a page whose resume phase is over (or found nothing).
FreshCtx(n) ==
  [pc |-> "done", load |-> n, got |-> NoValue, sw |-> 0, fillData |-> <<>>,
   checkedAt |-> 0, idx |-> 0, timer |-> 0, waitStart |-> 0, stale |-> {},
   observers |-> {}, log |-> <<>>]

\* checkAndFillPending of context c returns: no timer of it is left.
Returned(c) == [c EXCEPT !.pc = "done", !.timer = 0, !.waitStart = 0]

fields(c) == Prop(c.fillData[1], "fields")
loginButtonSelector(c) == Prop(c.fillData[1], "loginButtonSelector")

\* waitForElement installs its MutationObserver (switcher.ts:22-33); an
\* observer is named by its selector and the deadline of the timeout that
\* the same call schedules.
observe(c, selector, t) == c.observers \cup {<<selector, t + WAIT_TIMEOUT>>}

\* observer.disconnect() of the call whose timeout is due at deadline
disconnect(c, deadline) == {o \in c.observers : o[2] # deadline}

fillFieldResolved_anyElement(c, el, t) ==
  LET i == c.idx
      field == fields(c)[1][i]
      input == el
      effects == IF el = <<>> THEN <<Ev("end", i, "", 0)>>
                 ELSE IF input = <<>> THEN <<Ev("end", i, el[1], 0)>>
                 ELSE <<Ev("focus", i, input[1], 0),
                        Ev("value", i, input[1], field.value),
                        dispatchEvent("input", i, input[1]),
                        dispatchEvent("change", i, input[1]),
                        dispatchEvent("keydown", i, input[1]),
                        dispatchEvent("keyup", i, input[1]),
                        Ev("end", i, input[1], 1)>>
  IN [c EXCEPT !.pc = "gap", !.timer = t + FIELD_DELAY,
               !.log = c.log \o effects]

fillFieldResolved_assignLast(c, el, t) ==
  LET i == c.idx
      field == fields(c)[1][i]
      input == IF el = <<>> THEN <<>>
               ELSE IF tagName(el[1]) \in {"INPUT", "TEXTAREA"} THEN el
               ELSE innerInput(el[1])
      effects == IF el = <<>> THEN <<Ev("end", i, "", 0)>>
                 ELSE IF input = <<>> THEN <<Ev("end", i, el[1], 0)>>
                 ELSE <<Ev("focus", i, input[1], 0),
                        dispatchEvent("input", i, input[1]),
                        dispatchEvent("change", i, input[1]),
                        dispatchEvent("keydown", i, input[1]),
                        dispatchEvent("keyup", i, input[1]),
                        Ev("value", i, input[1], field.value),
                        Ev("end", i, input[1], 1)>>
  IN [c EXCEPT !.pc = "gap", !.timer = t + FIELD_DELAY,
               !.log = c.log \o effects]

\* fillField after its await: el is what waitForElement resolved to
\* (switcher.ts:47-91), followed by the delay of fillAllFields (line 103).
fillFieldResolved(c, el, t) ==
  LET i == c.idx
      field == fields(c)[1][i]
      input == IF el = <<>> THEN <<>>
               ELSE IF tagName(el[1]) \in {"INPUT", "TEXTAREA"} THEN el
               ELSE innerInput(el[1])
      effects == IF el = <<>> THEN <<Ev("end", i, "", 0)>>
                 ELSE IF input = <<>> THEN <<Ev("end", i, el[1], 0)>>
                 ELSE <<Ev("focus", i, input[1], 0),
                        Ev("value", i, input[1], field.value),
                        dispatchEvent("input", i, input[1]),
                        dispatchEvent("change", i, input[1]),
                        dispatchEvent("keydown", i, input[1]),
                        dispatchEvent("keyup", i, input[1]),
                        Ev("end", i, input[1], 1)>>
  IN [c EXCEPT !.pc = "gap", !.timer = t + FIELD_DELAY,
               !.log = c.log \o effects]

fillField_noAwait(c, d, t, i) ==
  LET field == fields(c)[1][i]
      q == querySelector(d, field.selector)
      c1 == [c EXCEPT !.idx = i, !.log = Append(c.log, Ev("start", i, "", 0))]
  IN IF q.throws
       THEN [c1 EXCEPT !.pc = "gap", !.timer = t + FIELD_DELAY,
                       !.log = Append(c1.log, Ev("end", i, "", 0))]
     ELSE IF q.el # <<>> THEN fillFieldResolved(c1, q.el, t)
     ELSE [c1 EXCEPT !.pc = "gap", !.timer = t + FIELD_DELAY]

fillField_noCatch(c, d, t, i) ==
  LET field == fields(c)[1][i]
      q == querySelector(d, field.selector)
      c1 == [c EXCEPT !.idx = i, !.log = Append(c.log, Ev("start", i, "", 0))]
  IN IF q.throws THEN Returned(c1)
     ELSE IF q.el # <<>> THEN fillFieldResolved(c1, q.el, t)
     ELSE [c1 EXCEPT !.pc = "wait", !.timer = t + WAIT_TIMEOUT,
                     !.waitStart = t,
                     !.observers = observe(c1, field.selector, t)]

\* fillField up to its await (switcher.ts:44-46) for the field at position i
fillField(c, d, t, i) ==
  LET field == fields(c)[1][i]
      q == querySelector(d, field.selector)
      c1 == [c EXCEPT !.idx = i, !.log = Append(c.log, Ev("start", i, "", 0))]
  IN IF q.throws
       THEN [c1 EXCEPT !.pc = "gap", !.timer = t + FIELD_DELAY,
                       !.log = Append(c1.log, Ev("end", i, "", 0))]
     ELSE IF q.el # <<>> THEN fillFieldResolved(c1, q.el, t)
     ELSE [c1 EXCEPT !.pc = "wait", !.timer = t + WAIT_TIMEOUT,
                     !.waitStart = t,
                     !.observers = observe(c1, field.selector, t)]

afterFillAll_onlyOnSuccess(c, t) ==
  IF loginButtonSelector(c) # <<>> /\ loginButtonSelector(c)[1] # ""
       /\ \A j \in DOMAIN c.log : c.log[j].op = "end" => c.log[j].value = 1
    THEN [c EXCEPT !.pc = "clickDelay", !.timer = t + CLICK_DELAY]
    ELSE Returned(c)

\* checkAndFillPending after fillAllFields has returned (switcher.ts:184-199)
afterFillAll(c, t) ==
  IF loginButtonSelector(c) # <<>> /\ loginButtonSelector(c)[1] # ""
    THEN [c EXCEPT !.pc = "clickDelay", !.timer = t + CLICK_DELAY]
    ELSE Returned(c)

LoopEnds_short(c, i) == i >= Len(fields(c)[1])

\* the for loop of fillAllFields reaching position i (switcher.ts:100)
LoopEnds(c, i) == i > Len(fields(c)[1])

fillAllFields_abort(c, d, t, i) ==
  IF LoopEnds(c, i) \/ (i > 1 /\ c.log[Len(c.log)].value = 0)
    THEN afterFillAll(c, t)
    ELSE fillField(c, d, t, i)

\* fillAllFields from position i on (switcher.ts:99-105)
fillAllFields(c, d, t, i) ==
  IF LoopEnds(c, i) THEN afterFillAll(c, t) ELSE fillField(c, d, t, i)

\* clickLoginButton after its await (switcher.ts:208-215)
clickResolved(c, el) ==
  IF el = <<>> THEN Returned(c)
  ELSE Returned([c EXCEPT !.log = Append(c.log, Ev("click", 0, el[1], 0))])

\* clickLoginButton up to its await (switcher.ts:205-207)
clickLoginButton(c, d, t) ==
  LET q == querySelector(d, loginButtonSelector(c)[1])
  IN IF q.throws THEN Returned(c)
     ELSE IF q.el # <<>> THEN clickResolved(c, q.el)
     ELSE [c EXCEPT !.pc = "clickWait", !.timer = t + WAIT_TIMEOUT,
                    !.waitStart = t,
                    !.observers = observe(c, loginButtonSelector(c)[1], t)]

Filled(c) == \E i \in DOMAIN c.log : c.log[i].op = "value"

\* the context of page p becomes c2
Step(p, c2) ==
  /\ ctx' = [ctx EXCEPT ![p] = c2]
  /\ UNCHANGED applied

\* ---------------------------------------------------------------- strings
\* Strings are sequences of characters: SubSeq(s, i, j) is s.substring(i-1, j).
UpperCase == "ABCDEFGHIJKLMNOPQRSTUVWXYZ"
LowerCase == "abcdefghijklmnopqrstuvwxyz"
WhiteSpace == {" ", "\t", "\n"}

\* String.prototype.toLowerCase on ASCII text
RECURSIVE toLowerCase(_)
toLowerCase(str) ==
  IF str = "" THEN ""
  ELSE LET ch == SubSeq(str, 1, 1)
           at == {i \in 1..Len(UpperCase) : SubSeq(UpperCase, i, i) = ch}
       IN (IF at = {} THEN ch
           ELSE LET i == CHOOSE i \in at : TRUE IN SubSeq(LowerCase, i, i))
          \o toLowerCase(SubSeq(str, 2, Len(str)))

\* String.prototype.trim
RECURSIVE trim(_)
trim(str) ==
  IF str = "" THEN ""
  ELSE IF SubSeq(str, 1, 1) \in WhiteSpace
    THEN trim(SubSeq(str, 2, Len(str)))
  ELSE IF SubSeq(str, Len(str), Len(str)) \in WhiteSpace
    THEN trim(SubSeq(str, 1, Len(str) - 1))
  ELSE str

startsWith(str, prefix) ==
  Len(str) >= Len(prefix) /\ SubSeq(str, 1, Len(prefix)) = prefix

endsWith(str, suffix) ==
  Len(str) >= Len(suffix)
    /\ SubSeq(str, Len(str) - Len(suffix) + 1, Len(str)) = suffix

\* str.slice(n)
slice(str, n) == SubSeq(str, n + 1, Len(str))

\* ------------------------------------------------- the selector synthesizer
\* A document is the sequence of its elements in document order.  The first
\* is the html element, the second is document.body; parent is the position
\* of parentElement, 0 for null.  An attribute that is absent reads "".
Digits == "0123456789"
Letters == LowerCase \o UpperCase
IdentChars == Letters \o Digits \o "-_"
HexDigits == Digits \o "abcdefABCDEF"

\* ch is one of the characters of chars
IsIn(ch, chars) == \E i \in 1..Len(chars) : SubSeq(chars, i, i) = ch

html == 1
body == 2

Node(tag, id, name, classList, placeholder, type, parent) ==
  [tagName |-> tag, id |-> id, name |-> name, classList |-> classList,
   placeholder |-> placeholder, type |-> type, parent |-> parent]

\* el.getAttribute(attr): "" stands for null
getAttribute(doc, el, attr) ==
  CASE attr = "name" -> doc[el].name
    [] attr = "placeholder" -> doc[el].placeholder
    [] attr = "type" -> doc[el].type
    [] attr = "id" -> doc[el].id
    [] OTHER -> ""

\* Array.from(parent.children): the positions of the children, in order
children(doc, parent) ==
  SelectSeq([i \in 1..Len(doc) |-> i], LAMBDA i : doc[i].parent = parent)

\* siblings.indexOf(current) + 1
indexOf(siblings, current) ==
  CHOOSE i \in 1..Len(siblings) : siblings[i] = current

\* anc is el or an ancestor of el
RECURSIVE contains(_, _, _)
contains(doc, anc, el) ==
  IF el = 0 THEN FALSE
  ELSE IF el = anc THEN TRUE
  ELSE contains(doc, anc, doc[el].parent)

\* the decimal digits of n, as template literals print a number
RECURSIVE numberToString(_)
numberToString(n) ==
  IF n < 10 THEN SubSeq(Digits, n + 1, n + 1)
  ELSE numberToString(n \div 10) \o SubSeq(Digits, (n % 10) + 1, (n % 10) + 1)

\* CSS.escape(value) on printable ASCII text (CSSOM, serialize an identifier):
\* a digit that starts the text, or follows a starting "-", becomes the
\* escape of its code point, a lone "-" is escaped, letters, digits, "-" and
\* "_" stay, every other character gets a backslash.
RECURSIVE escapeFrom(_, _)
escapeFrom(value, i) ==
  IF i > Len(value) THEN ""
  ELSE LET ch == SubSeq(value, i, i)
       IN (IF IsIn(ch, Digits)
                /\ (i = 1 \/ (i = 2 /\ SubSeq(value, 1, 1) = "-"))
             THEN "\\3" \o ch \o " "
           ELSE IF i = 1 /\ ch = "-" /\ Len(value) = 1 THEN "\\-"
           ELSE IF IsIn(ch, IdentChars) THEN ch
           ELSE "\\" \o ch)
          \o escapeFrom(value, i + 1)

CSSescape_none(value) == value

CSSescape(value) == escapeFrom(value, 1)

\* ---- document.querySelectorAll, for the selectors that the synthesizer
\* writes: compound selectors of a type, #id, .class, [attr="value"] and
\* :nth-child(n), joined by the child combinator.  Any other text is taken
\* for a syntax error.
NoParse == [ok |-> FALSE, value |-> "", rest |-> ""]

\* s starts an identifier
IsIdentStart(s) ==
  /\ s # ""
  /\ LET c == SubSeq(s, 1, 1)
     IN \/ IsIn(c, Letters \o "_\\")
        \/ /\ c = "-"
           /\ Len(s) >= 2
           /\ IsIn(SubSeq(s, 2, 2), Letters \o "_-\\")

\* the text that s starts with, escapes resolved, up to a character of stop
\* (a string) or up to the first character that is not of an identifier
RECURSIVE readText(_, _)
readText(s, stop) ==
  IF s = "" THEN [ok |-> TRUE, value |-> "", rest |-> ""]
  ELSE LET ch == SubSeq(s, 1, 1)
           cons(c, n) ==
             LET r == readText(SubSeq(s, n + 1, Len(s)), stop)
             IN IF r.ok THEN [r EXCEPT !.value = c \o @] ELSE NoParse
       IN IF ch = "\\"
            THEN IF Len(s) >= 4 /\ SubSeq(s, 2, 2) = "3"
                      /\ IsIn(SubSeq(s, 3, 3), Digits) /\ SubSeq(s, 4, 4) = " "
                   THEN cons(SubSeq(s, 3, 3), 4)
                 ELSE IF Len(s) < 2 \/ IsIn(SubSeq(s, 2, 2), HexDigits)
                   THEN NoParse
                 ELSE cons(SubSeq(s, 2, 2), 2)
          ELSE IF stop = ""
            THEN IF IsIn(ch, IdentChars) THEN cons(ch, 1)
                 ELSE [ok |-> TRUE, value |-> "", rest |-> s]
          ELSE IF ch = stop THEN [ok |-> TRUE, value |-> "", rest |-> s]
          ELSE cons(ch, 1)

readIdent(s) == IF IsIdentStart(s) THEN readText(s, "") ELSE NoParse

\* the number that s starts with
RECURSIVE readNumber(_, _)
readNumber(s, n) ==
  IF s # "" /\ IsIn(SubSeq(s, 1, 1), Digits)
    THEN readNumber(SubSeq(s, 2, Len(s)),
                    10 * n + (CHOOSE d \in 0..9 :
                                SubSeq(Digits, d + 1, d + 1) = SubSeq(s, 1, 1)))
    ELSE [value |-> n, rest |-> s]

NoCompound == [tag |-> <<>>, ids |-> {}, classes |-> {}, attrs |-> {}, nth |-> {}]
NoSimple == [ok |-> FALSE, c |-> NoCompound, rest |-> ""]

\* the simple selectors that s starts with, added to the compound c
RECURSIVE parseSimple(_, _)
parseSimple(s, c) ==
  IF s = "" \/ SubSeq(s, 1, 1) = " " THEN [ok |-> TRUE, c |-> c, rest |-> s]
  ELSE IF SubSeq(s, 1, 1) = "#"
    THEN LET hash(r) ==
               IF r.ok
                 THEN parseSimple(r.rest, [c EXCEPT !.ids = @ \cup {r.value}])
                 ELSE NoSimple
         IN hash(readIdent(SubSeq(s, 2, Len(s))))
  ELSE IF SubSeq(s, 1, 1) = "."
    THEN LET class(r) ==
               IF r.ok
                 THEN parseSimple(r.rest, [c EXCEPT !.classes = @ \cup {r.value}])
                 ELSE NoSimple
         IN class(readIdent(SubSeq(s, 2, Len(s))))
  ELSE IF SubSeq(s, 1, 1) = "["
    THEN LET value(a, v) ==
               IF v.ok /\ Len(v.rest) >= 2 /\ SubSeq(v.rest, 1, 2) = "\"]"
                 THEN parseSimple(SubSeq(v.rest, 3, Len(v.rest)),
                        [c EXCEPT !.attrs = @ \cup {<<a.value, v.value>>}])
                 ELSE NoSimple
             attribute(a) ==
               IF a.ok /\ Len(a.rest) >= 2 /\ SubSeq(a.rest, 1, 2) = "=\""
                 THEN value(a, readText(SubSeq(a.rest, 3, Len(a.rest)), "\""))
                 ELSE NoSimple
         IN attribute(readIdent(SubSeq(s, 2, Len(s))))
  ELSE IF Len(s) >= 11 /\ SubSeq(s, 1, 11) = ":nth-child("
    THEN LET nth(n) ==
               IF Len(n.rest) < Len(s) - 11 /\ n.rest # ""
                    /\ SubSeq(n.rest, 1, 1) = ")"
                 THEN parseSimple(SubSeq(n.rest, 2, Len(n.rest)),
                                  [c EXCEPT !.nth = @ \cup {n.value}])
                 ELSE NoSimple
         IN nth(readNumber(SubSeq(s, 12, Len(s)), 0))
  ELSE NoSimple

\* the compound selector that s starts with: a type selector, if there is
\* one, then the simple selectors
parseCompound(s) ==
  LET simple(t) ==
        IF t.ok
          THEN parseSimple(t.rest,
                 IF t.value = "" THEN NoCompound
                 ELSE [NoCompound EXCEPT !.tag = <<t.value>>])
          ELSE NoSimple
      compound(r) == IF r.ok /\ r.c # NoCompound THEN r ELSE NoSimple
  IN compound(simple(IF IsIdentStart(s) THEN readText(s, "")
                     ELSE [ok |-> TRUE, value |-> "", rest |-> s]))

\* the compounds of the selector s, the subject last
RECURSIVE parseSelector(_)
parseSelector(s) ==
  LET chain(r) ==
        IF ~r.ok THEN [ok |-> FALSE, chain |-> <<>>]
        ELSE IF r.rest = "" THEN [ok |-> TRUE, chain |-> <<r.c>>]
        ELSE IF Len(r.rest) > 3 /\ SubSeq(r.rest, 1, 3) = " > "
          THEN LET p == parseSelector(SubSeq(r.rest, 4, Len(r.rest)))
               IN IF p.ok THEN [p EXCEPT !.chain = <<r.c>> \o @]
                  ELSE [ok |-> FALSE, chain |-> <<>>]
        ELSE [ok |-> FALSE, chain |-> <<>>]
  IN chain(parseCompound(s))

\* the element el matches the compound selector c
matchesCompound(doc, el, c) ==
  /\ c.tag = <<>> \/ toLowerCase(c.tag[1]) = toLowerCase(doc[el].tagName)
  /\ \A i \in c.ids : doc[el].id = i
  /\ \A k \in c.classes : \E j \in DOMAIN doc[el].classList : doc[el].classList[j] = k
  /\ \A a \in c.attrs : a[2] # "" /\ getAttribute(doc, el, a[1]) = a[2]
  /\ \A n \in c.nth : indexOf(children(doc, doc[el].parent), el) = n

\* el matches chain[k] and its ancestors match the compounds before it
RECURSIVE matchesChain(_, _, _, _)
matchesChain(doc, el, chain, k) ==
  /\ matchesCompound(doc, el, chain[k])
  /\ \/ k = 1
     \/ /\ doc[el].parent # 0
        /\ matchesChain(doc, doc[el].parent, chain, k - 1)

\* root.querySelectorAll(selector): the matching elements inside root, in
\* document order (root = 0: the document)
querySelectorAll(doc, root, selector) ==
  LET select(p) ==
        IF ~p.ok THEN [throws |-> TRUE, els |-> <<>>]
        ELSE [throws |-> FALSE,
              els |-> SelectSeq([i \in 1..Len(doc) |-> i],
                        LAMBDA el : /\ matchesChain(doc, el, p.chain, Len(p.chain))
                                    /\ root = 0 \/ (el # root /\ contains(doc, root, el)))]
  IN select(parseSelector(selector))

\* ---- generateSelector (selector.ts:120-230)
\* el.querySelector("input, textarea"): an Option, <<>> is null
querySelectorInput(doc, el) ==
  LET found == SelectSeq([i \in 1..Len(doc) |-> i],
                 LAMBDA d : /\ d # el
                            /\ contains(doc, el, d)
                            /\ doc[d].tagName \in {"INPUT", "TEXTAREA"})
  IN IF found = <<>> THEN <<>> ELSE <<found[1]>>

\* UNSTABLE_CLASS_PATTERNS: /^css-/, /^sc-/, /^emotion-/, /^_[a-zA-Z0-9]+$/
isStableClass(className) ==
  ~ \/ startsWith(className, "css-")
    \/ startsWith(className, "sc-")
    \/ startsWith(className, "emotion-")
    \/ /\ startsWith(className, "_")
       /\ Len(className) > 1
       /\ \A i \in 2..Len(className) :
            IsIn(SubSeq(className, i, i), Letters \o Digits)

\* parts.join(sep)
RECURSIVE join(_, _)
join(parts, sep) ==
  IF parts = <<>> THEN ""
  ELSE IF Len(parts) = 1 THEN parts[1]
  ELSE parts[1] \o sep \o join(Tail(parts), sep)

\* the while loop of the full path (selector.ts:206-227), from current on
RECURSIVE pathFrom(_, _, _)
pathFrom(doc, current, path) ==
  IF current = 0 \/ current = body THEN path
  ELSE IF doc[current].id # ""
    THEN <<"#" \o CSSescape(doc[current].id)>> \o path
  ELSE LET parent == doc[current].parent
           tag == toLowerCase(doc[current].tagName)
           siblings == children(doc, parent)
           index == indexOf(siblings, current)
           same == {i \in 1..Len(siblings) :
                      doc[siblings[i]].tagName = doc[current].tagName}
           selector == IF parent # 0 /\ Cardinality(same) > 1
                         THEN tag \o ":nth-child(" \o numberToString(index) \o ")"
                         ELSE tag
       IN pathFrom(doc, parent, <<selector>> \o path)

\* document.querySelectorAll(selector).length === 1
isUnique(doc, selector) == Len(querySelectorAll(doc, 0, selector).els) = 1

generateSelectorForElement_noName(doc, el) ==
  LET e == doc[el]
  IN IF e.id # "" THEN "#" \o CSSescape(e.id)
     ELSE join(pathFrom(doc, el, <<>>), " > ")

\* generateSelectorForElement(el) (selector.ts:153-230)
generateSelectorForElement(doc, el) ==
  LET e == doc[el]
      tag == toLowerCase(e.tagName)
      byName == tag \o "[name=\"" \o CSSescape(e.name) \o "\"]"
      stableClasses == SelectSeq(e.classList, isStableClass)
      classes == join([i \in 1..Len(stableClasses) |->
                         "." \o CSSescape(stableClasses[i])], "")
      byClass == tag \o classes
      byPlaceholder ==
        tag \o "[placeholder=\"" \o CSSescape(e.placeholder) \o "\"]"
      byType == tag \o "[type=\"" \o CSSescape(e.type) \o "\"]"
  IN IF e.id # "" THEN "#" \o CSSescape(e.id)
     ELSE IF e.name # "" /\ isUnique(doc, byName) THEN byName
     ELSE IF Len(e.classList) > 0 /\ Len(stableClasses) > 0
               /\ isUnique(doc, byClass)
       THEN byClass
     ELSE IF e.placeholder # "" /\ isUnique(doc, byPlaceholder)
       THEN byPlaceholder
     ELSE IF e.type # "" /\ isUnique(doc, byType) THEN byType
     ELSE join(pathFrom(doc, el, <<>>), " > ")

\* generateSelector(el) (selector.ts:134-150)
generateSelector(doc, el) ==
  LET inner == IF doc[el].tagName \notin {"INPUT", "TEXTAREA"}
                      THEN querySelectorInput(doc, el) ELSE <<>>
      innerSelector == generateSelectorForElement(doc, inner[1])
  IN IF inner # <<>> /\ innerSelector # ""
       THEN innerSelector
       ELSE generateSelectorForElement(doc, el)

\* the kinds of element that the documents are made of
Kinds ==
  {Node("DIV", "", "", <<>>, "", "", 0),
   Node("DIV", "wrap", "", <<>>, "", "", 0),
   Node("DIV", "", "", <<"css-1x", "box">>, "", "", 0),
   Node("SPAN", "1.a", "n", <<>>, "", "", 0),
   Node("INPUT", "", "", <<>>, "", "", 0),
   Node("INPUT", "user", "n", <<>>, "", "", 0),
   Node("INPUT", "", "n", <<"_a1">>, "", "text", 0),
   Node("TEXTAREA", "", "a\"b", <<>>, "Your name", "", 0)}

\* the documents of html, body and up to MaxNodes elements inside body, in
\* document order: an element is put into the one before it, or next to it
\* or to one of its ancestors
EmptyDocument ==
  <<Node("HTML", "", "", <<>>, "", "", 0),
    Node("BODY", "", "", <<>>, "", "", html)>>

RECURSIVE Documents(_)
Documents(n) ==
  IF n = 0 THEN {EmptyDocument}
    ELSE LET shorter == Documents(n - 1)
         IN shorter \cup
            {Append(doc, [k EXCEPT !.parent = p]) :
               <<doc, k, p>> \in
                 {t \in shorter \X Kinds \X (body..(n + 1)) :
                    /\ Len(t[1]) = n + 1
                    /\ contains(t[1], t[3], n + 1)
                    /\ t[1][t[3]].tagName \notin {"INPUT", "TEXTAREA"}}}

\* no selector synthesized for the element el of doc yet
SynthStart == [doc |-> EmptyDocument, el |-> body, selector |-> <<>>, found |-> <<>>]

\* ------------------------------------------------------ the element picker
\* The document the picker works on: "#user" is an INPUT, "#wrap" a DIV that
\* holds an INPUT and carries an inline outline of its own, "#panel" an
\* element of the extension's own UI (inside #crxjs-app).
PickElements == {"#user", "#wrap", "#panel"}

HIGHLIGHT_STYLE ==
  [outline |-> "2px solid #3b82f6", outlineOffset |-> "2px",
   backgroundColor |-> "rgba(59, 130, 246, 0.1)"]

\* the inline styles that the page itself gave its elements
pageStyle(el) ==
  [outline |-> IF el = "#wrap" THEN "1px solid red" ELSE "",
   outlineOffset |-> "", backgroundColor |-> ""]

\* document.body.style.cursor as the page may have set it
PageCursors == {"", "wait"}

\* the document of the picker's page, and the place of its elements in it
PickDocument ==
  <<Node("HTML", "", "", <<>>, "", "", 0),
    Node("BODY", "", "", <<>>, "", "", html),
    Node("INPUT", "user", "", <<>>, "", "", body),
    Node("DIV", "wrap", "", <<>>, "", "", body),
    Node("INPUT", "wrap-input", "", <<>>, "", "", 4),
    Node("DIV", "crxjs-app", "", <<>>, "", "", body),
    Node("DIV", "panel", "", <<>>, "", "", 6)>>

nodeOf(el) == CASE el = "#user" -> 3 [] el = "#wrap" -> 4 [] OTHER -> 7

\* target.closest("#crxjs-app") is not null
insideApp(el) ==
  \E anc \in DOMAIN PickDocument :
    PickDocument[anc].id = "crxjs-app" /\ contains(PickDocument, anc, nodeOf(el))

\* The module state of selector.ts before any call, on a page whose body has
\* the inline cursor c.  sessions counts the startSelecting calls; the
\* history: calls, the callback invocations; active, the sessions started
\* and not torn down since; restarted, whether startSelecting was called
\* while selecting; last, the call or event handled last.
PickerStart(c) ==
  [isSelecting |-> FALSE, currentHighlighted |-> <<>>,
   onSelectCallback |-> <<>>, listeners |-> {}, cursor |-> c,
   style |-> [el \in PickElements |-> pageStyle(el)],
   originalStyles |-> <<>>, previews |-> <<>>,
   pageCursor |-> c, sessions |-> 0, active |-> {}, calls |-> <<>>,
   restarted |-> FALSE, last |-> <<"load", "">>]

\* addHighlight(el) (selector.ts:91-105); originalStyles is a function from
\* the elements that have a snapshot
addHighlight(s, el) ==
  [s EXCEPT !.originalStyles =
              [e \in DOMAIN s.originalStyles \cup {el} |->
                 IF e = el THEN s.style[el] ELSE s.originalStyles[e]],
            !.style = [s.style EXCEPT ![el] = HIGHLIGHT_STYLE]]

\* removeHighlight(el) (selector.ts:108-118)
removeHighlight(s, el) ==
  IF el \in DOMAIN s.originalStyles
    THEN [s EXCEPT !.style = [s.style EXCEPT ![el] = s.originalStyles[el]],
                   !.originalStyles =
                     [e \in DOMAIN s.originalStyles \ {el} |->
                        s.originalStyles[e]]]
    ELSE s

\* handleMouseMove(e) with e.target = target (selector.ts:30-48)
handleMouseMove(s, target) ==
  IF insideApp(target) THEN s
  ELSE LET s1 == IF s.currentHighlighted # <<>>
                      /\ s.currentHighlighted[1] # target
                   THEN removeHighlight(s, s.currentHighlighted[1])
                   ELSE s
       IN IF <<target>> # s1.currentHighlighted
            THEN [addHighlight(s1, target) EXCEPT
                    !.currentHighlighted = <<target>>]
            ELSE s1

\* stopSelecting() (selector.ts:268-285)
stopSelecting(s) ==
  LET s1 == [s EXCEPT !.isSelecting = FALSE, !.onSelectCallback = <<>>,
                      !.active = {}]
      s2 == IF s1.currentHighlighted # <<>>
              THEN [removeHighlight(s1, s1.currentHighlighted[1]) EXCEPT
                      !.currentHighlighted = <<>>]
              ELSE s1
  IN [s2 EXCEPT !.listeners = s2.listeners \ {"mousemove", "click", "keydown"},
                !.cursor = ""]

\* One invocation of a session's callback, with the module state it runs in.
Invocation(s, callback, selector) ==
  [session |-> callback, selector |-> selector,
   isSelecting |-> s.isSelecting, listeners |-> s.listeners,
   currentHighlighted |-> s.currentHighlighted,
   onSelectCallback |-> s.onSelectCallback, cursor |-> s.cursor,
   highlighted |-> {el \in PickElements : s.style[el] = HIGHLIGHT_STYLE}]

handleClick_noGuard(s, target) ==
  LET selector == generateSelector(PickDocument, nodeOf(target))
      callback == s.onSelectCallback
      s1 == stopSelecting(s)
  IN IF callback # <<>>
       THEN [s1 EXCEPT !.calls =
               Append(s1.calls, Invocation(s1, callback[1], selector))]
       ELSE s1

\* handleClick(e) with e.target = target (selector.ts:51-88)
handleClick(s, target) ==
  IF insideApp(target) THEN s
  ELSE LET selector == generateSelector(PickDocument, nodeOf(target))
           callback == s.onSelectCallback
           s1 == stopSelecting(s)
       IN IF callback # <<>>
            THEN [s1 EXCEPT !.calls =
                    Append(s1.calls, Invocation(s1, callback[1], selector))]
            ELSE s1

handleKeyDown_commit(s, key) ==
  IF key = "Escape"
    THEN handleClick(s, IF s.currentHighlighted # <<>>
                          THEN s.currentHighlighted[1] ELSE "#user")
    ELSE s

\* handleKeyDown(e) with e.key = key (selector.ts:233-237)
handleKeyDown(s, key) == IF key = "Escape" THEN stopSelecting(s) ELSE s

startSelecting_noTeardown(s, callback) ==
  [s EXCEPT !.isSelecting = TRUE, !.onSelectCallback = <<callback>>,
            !.listeners = s.listeners \cup {"mousemove", "click", "keydown"},
            !.cursor = "crosshair", !.sessions = callback,
            !.active = s.active \cup {callback},
            !.restarted = s.isSelecting \/ s.restarted]

\* startSelecting(callback) (selector.ts:240-265); addEventListener ignores a
\* listener that is registered already
startSelecting(s, callback) ==
  LET s1 == IF s.isSelecting THEN stopSelecting(s) ELSE s
  IN [s1 EXCEPT !.isSelecting = TRUE, !.onSelectCallback = <<callback>>,
                !.listeners = s1.listeners \cup {"mousemove", "click", "keydown"},
                !.cursor = "crosshair", !.sessions = callback,
                !.active = s1.active \cup {callback},
                !.restarted = s.isSelecting \/ s.restarted]

\* document.querySelector(selector) on the picker's document
pickQuery(selector) ==
  IF ~IsValidSelector(selector) THEN [throws |-> TRUE, el |-> <<>>]
  ELSE IF selector \in PickElements THEN [throws |-> FALSE, el |-> <<selector>>]
  ELSE [throws |-> FALSE, el |-> <<>>]

\* highlightElement(selector) (selector.ts:303-313): previews is the queue of
\* the removal timers that are scheduled, all with the same delay
highlightElement(s, selector) ==
  LET q == pickQuery(selector)
  IN IF q.throws \/ q.el = <<>> THEN s
     ELSE [addHighlight(s, q.el[1]) EXCEPT
             !.previews = Append(s.previews, q.el[1])]

\* ------------------------------------------------------ domain matching
matchDomain_noDot(hostname0, pattern0) ==
  LET pattern == toLowerCase(trim(pattern0))
      hostname == toLowerCase(hostname0)
  IN IF startsWith(pattern, "*.")
       THEN LET baseDomain == slice(pattern, 2)
            IN hostname = baseDomain \/ endsWith(hostname, baseDomain)
       ELSE hostname = pattern

\* matchDomain(hostname, pattern) (storage.ts:19-32)
matchDomain(hostname0, pattern0) ==
  LET pattern == toLowerCase(trim(pattern0))
      hostname == toLowerCase(hostname0)
  IN IF startsWith(pattern, "*.")
       THEN LET baseDomain == slice(pattern, 2)
            IN hostname = baseDomain \/ endsWith(hostname, "." \o baseDomain)
       ELSE hostname = pattern

isCurrentDomainAllowed_emptyDenies(hostname, allowedDomains) ==
  IF allowedDomains = <<>> THEN TRUE
  ELSE \E i \in DOMAIN allowedDomains[1] :
         matchDomain(hostname, allowedDomains[1][i])

isCurrentDomainAllowed_every(hostname, allowedDomains) ==
  IF allowedDomains = <<>> \/ Len(allowedDomains[1]) = 0 THEN TRUE
  ELSE \A i \in DOMAIN allowedDomains[1] :
         matchDomain(hostname, allowedDomains[1][i])

\* isCurrentDomainAllowed(allowedDomains) with window.location.hostname =
\* hostname (storage.ts:35-45); allowedDomains is an Option
isCurrentDomainAllowed(hostname, allowedDomains) ==
  IF allowedDomains = <<>> \/ Len(allowedDomains[1]) = 0 THEN TRUE
  ELSE \E i \in DOMAIN allowedDomains[1] :
         matchDomain(hostname, allowedDomains[1][i])

\* the hostnames and the patterns of the calls that are checked
Hostnames ==
  {"example.com", "a.example.com", "a.b.example.com", "notexample.com",
   "example.com.evil.org", "A.Example.COM", ""}
Patterns ==
  {"*.example.com", "example.com", " Example.COM ", "*.EXAMPLE.com",
   " *.example.com\t", "a.example.com", ".example.com", "*example.com"}

\* string[] | undefined, of at most MaxPatterns patterns
PatternLists ==
  {<<>>} \cup {<<l>> : l \in UNION {[1..n -> Patterns] : n \in 0..MaxPatterns}}

\* no call made
MatcherStart == [hostname |-> "", allowedDomains |-> <<>>, result |-> <<>>]

\* ------------------------------------------------ the configuration store
\* AppConfig (types.ts:25-30): an optional property is an Option, <<>> is
\* undefined.  An environment is told by its id and its name.
defaultConfig ==
  [environments |-> <<>>, currentEnvId |-> <<>>, panelPosition |-> <<>>,
   allowedDomains |-> <<<<>>>>]

\* generateId() in the i-th operation: an id that no other call returns
generateId(i) == "id" \o numberToString(i)

\* environments.findIndex((e) => e.id === id), counted from 1: 0 is -1
findIndex(environments, id) ==
  IF \E k \in DOMAIN environments : environments[k].id = id
    THEN CHOOSE k \in DOMAIN environments :
           /\ environments[k].id = id
           /\ \A j \in 1..(k - 1) : environments[j].id # id
    ELSE 0

\* The content script of every tab has its own defaultConfig object.
ConfigTabs == {1, 2}

\* the calls of the operations, with their arguments
ConfigCalls ==
  <<[op |-> "addEnv", env |-> [name |-> "b"]],
    [op |-> "updateEnv", env |-> [id |-> "a", name |-> "a2"]],
    [op |-> "deleteEnv", envId |-> "a"],
    [op |-> "setCurrentEnv", envId |-> <<"a">>],
    [op |-> "savePanelPosition", x |-> 8, y |-> 120],
    [op |-> "saveAllowedDomains", domains |-> <<"example.com">>]>>

\* what the i-th operation, the call c, does to the object cfg that
\* loadConfig gave it (storage.ts:48-117)
mutate(c, cfg, i) ==
  CASE c.op = "addEnv" ->
         [cfg EXCEPT !.environments =
            Append(@, [id |-> generateId(i), name |-> c.env.name])]
    [] c.op = "updateEnv" ->
         LET index == findIndex(cfg.environments, c.env.id)
         IN IF index # 0 THEN [cfg EXCEPT !.environments[index] = c.env]
            ELSE cfg
    [] c.op = "deleteEnv" ->
         [cfg EXCEPT !.environments = SelectSeq(@, LAMBDA e : e.id # c.envId),
                     !.currentEnvId = IF @ = <<c.envId>> THEN <<>> ELSE @]
    [] c.op = "setCurrentEnv" -> [cfg EXCEPT !.currentEnvId = c.envId]
    [] c.op = "savePanelPosition" ->
         [cfg EXCEPT !.panelPosition = <<[x |-> c.x, y |-> c.y]>>]
    [] c.op = "saveAllowedDomains" ->
         [cfg EXCEPT !.allowedDomains = <<c.domains>>]

\* the call c goes on to saveConfig: updateEnv saves only what it found
saves(c, cfg) ==
  c.op = "updateEnv" => findIndex(cfg.environments, c.env.id) # 0

\* the stored values that the operations start from: nothing, or a
\* configuration of one environment
StoredConfigs ==
  {<<>>,
   <<[defaultConfig EXCEPT !.environments = <<[id |-> "a", name |-> "a1"]>>]>>}

\* stored: the value of the key (an Option); defaults: per tab, the
\* defaultConfig object; ops: the operations called, each with the position
\* of its call in ConfigCalls, its tab, where it is ("get": loadConfig's get
\* is on its way, "set": saveConfig's set is, "done") and the value its set
\* carries; initial, a history: the value stored at the start.
ConfigStart ==
  [stored |-> <<>>, defaults |-> [t \in ConfigTabs |-> defaultConfig],
   ops |-> <<>>, initial |-> <<>>]

\* ---------------------------------------------------------------- actions
Init ==
  /\ picker = PickerStart("")
  /\ matcher = MatcherStart
  /\ synth = SynthStart
  /\ config = ConfigStart
  /\ env \in Envs
  /\ store = NoValue
  /\ storeSw = 0
  /\ switches = 0
  /\ loads = 0
  /\ ctx = [p \in Pages |-> FreshCtx(0)]
  /\ dom = [p \in Pages |-> {}]
  /\ localStorage = [p \in Pages |-> {"token"}]
  /\ sessionStorage = [p \in Pages |-> {"token"}]
  /\ navPending = [p \in Pages |-> FALSE]
  /\ applied = {}

IsExpired_late(age) == age > FRESHNESS + 1

IsExpired_inclusive(age) == age >= FRESHNESS

\* The freshness test of checkAndFillPending (switcher.ts:169)
IsExpired(age) == age > FRESHNESS

switchEnvironment_keepSession(p) ==
  /\ switches < MaxSwitches
  /\ ~navPending[p]
  /\ LET fillData == JSONStringify([envId |-> env.id,
                                    fields |-> env.fields,
                                    loginButtonSelector |-> env.loginButtonSelector,
                                    timestamp |-> <<now>>])
     IN /\ localStorage' = [localStorage EXCEPT ![p] = {}]
        /\ sessionStorage' = sessionStorage
        /\ store' = Str(fillData)
        /\ storeSw' = switches + 1
        /\ navPending' = [navPending EXCEPT ![p] = TRUE]
  /\ switches' = switches + 1
  /\ UNCHANGED <<picker, matcher, synth, config, env, loads, ctx, dom, applied>>

\* switchEnvironment(env) (switcher.ts:128-147)
switchEnvironment(p) ==
  /\ switches < MaxSwitches
  /\ ~navPending[p]
  /\ LET fillData == JSONStringify([envId |-> env.id,
                                    fields |-> env.fields,
                                    loginButtonSelector |-> env.loginButtonSelector,
                                    timestamp |-> <<now>>])
     IN /\ localStorage' = [localStorage EXCEPT ![p] = {}]
        /\ sessionStorage' = [sessionStorage EXCEPT ![p] = {}]
        /\ store' = Str(fillData)
        /\ storeSw' = switches + 1
        /\ navPending' = [navPending EXCEPT ![p] = TRUE]
  /\ switches' = switches + 1
  /\ UNCHANGED <<picker, matcher, synth, config, env, loads, ctx, dom, applied>>

\* A page load: the old context and document are gone, the content script's
\* init effect calls checkAndFillPending, which issues the get
\* (App.tsx:42-58, switcher.ts:150-152).
PageLoad(p) ==
  /\ loads < MaxLoads
  /\ loads' = loads + 1
  /\ ctx' = [ctx EXCEPT ![p] = [FreshCtx(loads + 1) EXCEPT
                                  !.pc = "get", !.got = store, !.sw = storeSw]]
  /\ dom' = [dom EXCEPT ![p] = {}]
  /\ navPending' = [navPending EXCEPT ![p] = FALSE]
  /\ applied' = IF Filled(ctx[p]) THEN applied \cup {ctx[p].sw} ELSE applied
  /\ UNCHANGED <<picker, matcher, synth, config, env, store, storeSw, switches, localStorage, sessionStorage>>

GetCallback_removeAlways(p) ==
  LET c == ctx[p]
      fillDataStr == c.got
  IN /\ c.pc = "get"
     /\ IF fillDataStr.t # "string"
          THEN /\ Step(p, Returned(c))
               /\ store' = NoValue
               /\ storeSw' = 0
          ELSE LET fillData == JSONParse(fillDataStr.json)
                   c1 == [c EXCEPT !.fillData = <<fillData>>, !.checkedAt = now]
               IN IF IsExpired(now - fillData.timestamp)
                    THEN /\ store' = NoValue
                         /\ storeSw' = 0
                         /\ Step(p, Returned(c1))
                    ELSE /\ Step(p, [c1 EXCEPT !.pc = "settle",
                                               !.timer = now + SETTLE_DELAY])
                         /\ UNCHANGED <<store, storeSw>>
     /\ UNCHANGED <<picker, matcher, synth, config, env, switches, loads, dom, localStorage, sessionStorage,
                    navPending>>

\* The callback of chrome.storage.local.get (switcher.ts:152-178)
GetCallback(p) ==
  LET c == ctx[p]
      fillDataStr == c.got
  IN /\ c.pc = "get"
     /\ IF fillDataStr.t # "string"
          THEN /\ Step(p, Returned(c))
               /\ UNCHANGED <<store, storeSw>>
          ELSE LET fillData == JSONParse(fillDataStr.json)
                   c1 == [c EXCEPT !.fillData = <<fillData>>, !.checkedAt = now]
               IN IF IsExpired(now - fillData.timestamp)
                    THEN /\ store' = NoValue
                         /\ storeSw' = 0
                         /\ Step(p, Returned(c1))
                    ELSE /\ Step(p, [c1 EXCEPT !.pc = "settle",
                                               !.timer = now + SETTLE_DELAY])
                         /\ UNCHANGED <<store, storeSw>>
     /\ UNCHANGED <<picker, matcher, synth, config, env, switches, loads, dom, localStorage, sessionStorage,
                    navPending>>

\* fillAllFields is entered at position i, or left past the last field; on
\* leaving, checkAndFillPending removes the key (switcher.ts:181-184).
EnterLoop(p, c, i) ==
  /\ Step(p, fillAllFields(c, dom[p], now, i))
  /\ IF LoopEnds(c, i)
       THEN store' = NoValue /\ storeSw' = 0
       ELSE UNCHANGED <<store, storeSw>>

\* The settle delay is over (switcher.ts:178-181).  A payload without a
\* fields array makes the for-of throw; the catch of line 195 ends the phase.
SettleDone(p) ==
  LET c == ctx[p]
  IN /\ c.pc = "settle"
     /\ now >= c.timer
     /\ IF fields(c) = <<>>
          THEN /\ Step(p, Returned(c))
               /\ UNCHANGED <<store, storeSw>>
          ELSE EnterLoop(p, c, 1)
     /\ UNCHANGED <<picker, matcher, synth, config, env, switches, loads, dom, localStorage, sessionStorage,
                    navPending>>

\* The delay between two fields is over (switcher.ts:100-104).
GapDone(p) ==
  LET c == ctx[p]
  IN /\ c.pc = "gap"
     /\ now >= c.timer
     /\ EnterLoop(p, c, c.idx + 1)
     /\ UNCHANGED <<picker, matcher, synth, config, env, switches, loads, dom, localStorage, sessionStorage,
                    navPending>>

\* The timeout of waitForElement fires while fillField waits (switcher.ts:36-39).
WaitTimeout_keepObserver(p) ==
  LET c == ctx[p]
  IN /\ c.pc = "wait"
     /\ now >= c.timer
     /\ Step(p, fillFieldResolved(c, <<>>, now))
     /\ UNCHANGED <<picker, matcher, synth, config, env, store, storeSw, switches, loads, dom, localStorage,
                    sessionStorage, navPending>>

WaitTimeout(p) ==
  LET c == ctx[p]
  IN /\ c.pc = "wait"
     /\ now >= c.timer
     /\ Step(p, fillFieldResolved([c EXCEPT !.observers = disconnect(c, c.timer)],
                                  <<>>, now))
     /\ UNCHANGED <<picker, matcher, synth, config, env, store, storeSw, switches, loads, dom, localStorage,
                    sessionStorage, navPending>>

\* The delay before the click is over (switcher.ts:192-193).
ClickDelayDone(p) ==
  LET c == ctx[p]
  IN /\ c.pc = "clickDelay"
     /\ now >= c.timer
     /\ Step(p, clickLoginButton(c, dom[p], now))
     /\ UNCHANGED <<picker, matcher, synth, config, env, store, storeSw, switches, loads, dom, localStorage,
                    sessionStorage, navPending>>

ClickWaitTimeout_noResolve(p) ==
  LET c == ctx[p]
  IN /\ c.pc = "clickWait"
     /\ now >= c.timer
     /\ Step(p, [c EXCEPT !.observers = disconnect(c, c.timer)])
     /\ UNCHANGED <<picker, matcher, synth, config, env, store, storeSw, switches, loads, dom, localStorage,
                    sessionStorage, navPending>>

\* The timeout of waitForElement fires while clickLoginButton waits.
ClickWaitTimeout(p) ==
  LET c == ctx[p]
  IN /\ c.pc = "clickWait"
     /\ now >= c.timer
     /\ Step(p, clickResolved([c EXCEPT !.observers = disconnect(c, c.timer)],
                              <<>>))
     /\ UNCHANGED <<picker, matcher, synth, config, env, store, storeSw, switches, loads, dom, localStorage,
                    sessionStorage, navPending>>

observerCallback_noCheck(c, d, t) ==
  LET c1 == [c EXCEPT !.observers = {o \in @ : querySelector(d, o[1]).el = <<>>}]
      c2 == [c1 EXCEPT !.observers = disconnect(c1, c.timer),
                       !.stale = c.stale \cup {c.timer}]
  IN IF c.pc = "wait"
       THEN LET q == querySelector(d, fields(c)[1][c.idx].selector)
            IN fillFieldResolved(c2, q.el, t)
     ELSE IF c.pc = "clickWait"
       THEN LET q == querySelector(d, loginButtonSelector(c)[1])
            IN clickResolved(c2, q.el)
     ELSE c1

\* The MutationObserver callbacks of waitForElement (switcher.ts:22-28) run on
\* the document d: every connected observer whose selector resolves
\* disconnects and resolves its promise, which resumes the wait that is
\* pending on it; the timeout of the resolved wait stays scheduled.
observerCallback(c, d, t) ==
  LET c1 == [c EXCEPT !.observers = {o \in @ : querySelector(d, o[1]).el = <<>>}]
      c2 == [c1 EXCEPT !.stale = c.stale \cup {c.timer}]
  IN IF c.pc = "wait"
       THEN LET sel == fields(c)[1][c.idx].selector
                q == querySelector(d, sel)
            IN IF q.el # <<>> /\ <<sel, c.timer>> \in c.observers
                 THEN fillFieldResolved(c2, q.el, t)
                 ELSE c1
     ELSE IF c.pc = "clickWait"
       THEN LET sel == loginButtonSelector(c)[1]
                q == querySelector(d, sel)
            IN IF q.el # <<>> /\ <<sel, c.timer>> \in c.observers
                 THEN clickResolved(c2, q.el)
                 ELSE c1
     ELSE c1

\* The selectors a context will query: those of the payload it has read.
Queried(c) ==
  IF c.got.t # "string" THEN {}
  ELSE LET o == JSONParse(c.got.json)
           fs == Prop(o, "fields")
           b == Prop(o, "loginButtonSelector")
       IN (IF fs = <<>> THEN {} ELSE {fs[1][i].selector : i \in DOMAIN fs[1]})
          \cup (IF b = <<>> THEN {} ELSE {b[1]})

\* The page adds element e to its document while a resume phase runs;
\* observers are notified.
Mutate(p, e) ==
  /\ ctx[p].pc # "done"
  /\ e \in {q \in Queried(ctx[p]) : IsValidSelector(q)} \cup {"#other"}
  /\ e \notin dom[p]
  /\ dom' = [dom EXCEPT ![p] = dom[p] \cup ({e} \cap Elements)]
  /\ Step(p, observerCallback(ctx[p], dom'[p], now))
  /\ UNCHANGED <<picker, matcher, synth, config, env, store, storeSw, switches, loads, localStorage,
                 sessionStorage, navPending>>

\* The timeout of a wait that the observer already resolved fires: its
\* disconnect and resolve(null) change nothing (switcher.ts:36-39).
StaleTimeout(p) ==
  /\ \E d \in ctx[p].stale :
       /\ now >= d
       /\ ctx' = [ctx EXCEPT ![p].stale = ctx[p].stale \ {d},
                             ![p].observers = disconnect(ctx[p], d)]
  /\ UNCHANGED <<picker, matcher, synth, config, env, store, storeSw, switches, loads, dom, localStorage,
                 sessionStorage, navPending, applied>>

\* The pages whose context waits for a timer, and those whose get callback
\* is due on a payload.
Timed == {p \in Pages :
            ctx[p].pc \in {"settle", "wait", "gap", "clickDelay", "clickWait"}}
Getting == {p \in Pages : ctx[p].pc = "get" /\ ctx[p].got.t = "string"}

\* the timestamp of a payload text (its last property)
timestampOf(text) == text[Len(text)][2]

\* Deadlines of the timers that are scheduled.
Deadlines ==
  {ctx[p].timer : p \in Timed} \cup UNION {ctx[p].stale : p \in Pages}

\* Instants at which something can change: the deadlines and the freshness
\* boundary of a payload on its way to a get callback, whose Date.now()
\* decides its age.
Instants ==
  Deadlines \cup {timestampOf(ctx[p].got.json) + FRESHNESS + k :
                    p \in Getting, k \in {-1, 0, 1}}

\* An instant older than every freshness window stays where it is.
Earlier(t, d) == IF t - d < -(FRESHNESS + 1) THEN -(FRESHNESS + 1) ELSE t - d

\* the stored value after d ms
Aged(v, d) ==
  IF v.t # "string" THEN v
  ELSE Str([v.json EXCEPT ![Len(v.json)] =
              <<"timestamp", Earlier(timestampOf(v.json), d)>>])

\* Time passes, up to the next deadline and not across a navigation: d ms
\* later every instant that is still to be compared with the present lies
\* d ms further back.
Tick ==
  /\ \A p \in Pages : ~navPending[p]
  /\ \E d \in Instants :
       /\ d > now
       /\ \A t \in Deadlines : d <= t
       /\ store' = Aged(store, d)
       /\ ctx' = [p \in Pages |->
                    [ctx[p] EXCEPT
                       !.got = IF p \in Getting THEN Aged(@, d) ELSE @,
                       !.timer = IF p \in Timed THEN @ - d ELSE @,
                       !.waitStart = IF ctx[p].pc \in {"wait", "clickWait"}
                                       THEN @ - d ELSE @,
                       !.stale = {t - d : t \in @},
                       !.observers = {<<o[1], o[2] - d>> : o \in @}]]
  /\ UNCHANGED <<picker, matcher, synth, config, env, storeSw, switches, loads, dom, localStorage,
                 sessionStorage, navPending, applied>>

Next ==
  \/ \E p \in Pages : switchEnvironment(p)
  \/ \E p \in Pages : PageLoad(p)
  \/ \E p \in Pages : GetCallback(p)
  \/ \E p \in Pages : SettleDone(p)
  \/ \E p \in Pages : GapDone(p)
  \/ \E p \in Pages : WaitTimeout(p)
  \/ \E p \in Pages : ClickDelayDone(p)
  \/ \E p \in Pages : ClickWaitTimeout(p)
  \/ \E p \in Pages, e \in Elements : Mutate(p, e)
  \/ \E p \in Pages : StaleTimeout(p)
  \/ Tick

Spec == Init /\ [][Next]_vars

\* The event loop runs every callback that is due, the storage delivers the
\* result of a get, and time passes.
Fairness ==
  /\ \A p \in Pages :
       /\ WF_vars(GetCallback(p))
       /\ WF_vars(SettleDone(p))
       /\ WF_vars(GapDone(p))
       /\ WF_vars(WaitTimeout(p))
       /\ WF_vars(ClickDelayDone(p))
       /\ WF_vars(ClickWaitTimeout(p))
       /\ WF_vars(StaleTimeout(p))
  /\ WF_vars(Tick)

\* One resume phase by itself: the page has just loaded, after a switch that
\* staged the payload of env or with nothing staged, and is not left; the
\* payload ages while the get is on its way.
LiveInit ==
  /\ picker = PickerStart("")
  /\ matcher = MatcherStart
  /\ synth = SynthStart
  /\ config = ConfigStart
  /\ env \in Envs
  /\ switches \in {0, 1}
  /\ storeSw = switches
  /\ store = IF switches = 0 THEN NoValue
             ELSE Str(JSONStringify([envId |-> env.id,
                                     fields |-> env.fields,
                                     loginButtonSelector |-> env.loginButtonSelector,
                                     timestamp |-> <<now>>]))
  /\ loads = 1
  /\ ctx = [p \in Pages |-> [FreshCtx(1) EXCEPT !.pc = "get", !.got = store,
                                                !.sw = storeSw]]
  /\ dom = [p \in Pages |-> {}]
  /\ localStorage = [p \in Pages |-> IF switches = 0 THEN {"token"} ELSE {}]
  /\ sessionStorage = [p \in Pages |-> IF switches = 0 THEN {"token"} ELSE {}]
  /\ navPending = [p \in Pages |-> FALSE]
  /\ applied = {}

LiveNext ==
  \/ \E p \in Pages : GetCallback(p)
  \/ \E p \in Pages : SettleDone(p)
  \/ \E p \in Pages : GapDone(p)
  \/ \E p \in Pages : WaitTimeout(p)
  \/ \E p \in Pages : ClickDelayDone(p)
  \/ \E p \in Pages : ClickWaitTimeout(p)
  \/ \E p \in Pages, e \in Elements : Mutate(p, e)
  \/ \E p \in Pages : StaleTimeout(p)
  \/ Tick

LiveSpec == LiveInit /\ [][LiveNext]_vars /\ Fairness

\* ------------------------------------------------ the picker's operations
\* What the specification of the picker leaves as it is.
SwitcherIdle ==
  /\ env = [id |-> <<"env">>, fields |-> <<>>, loginButtonSelector |-> <<>>]
  /\ store = NoValue
  /\ storeSw = 0
  /\ switches = 0
  /\ loads = 0
  /\ ctx = [p \in Pages |-> FreshCtx(0)]
  /\ dom = [p \in Pages |-> {}]
  /\ localStorage = [p \in Pages |-> {"token"}]
  /\ sessionStorage = [p \in Pages |-> {"token"}]
  /\ navPending = [p \in Pages |-> FALSE]
  /\ applied = {}

switcherVars == <<env, store, storeSw, switches, loads, ctx, dom, localStorage,
                  sessionStorage, navPending, applied>>

PickerInit ==
  /\ picker \in {PickerStart(c) : c \in PageCursors}
  /\ matcher = MatcherStart
  /\ synth = SynthStart
  /\ config = ConfigStart
  /\ SwitcherIdle

\* handleSelectField / handleSelectLoginButton call startSelecting
\* (App.tsx:177-203); the callback is named by the number of the session.
Start ==
  /\ picker.sessions < MaxSessions
  /\ picker' = [startSelecting(picker, picker.sessions + 1) EXCEPT
                  !.last = <<"start", "">>]
  /\ UNCHANGED <<switcherVars, matcher, synth, config>>

\* the effects of App.tsx:60-76 call stopSelecting
Stop ==
  /\ picker' = [stopSelecting(picker) EXCEPT !.last = <<"stop", "">>]
  /\ UNCHANGED <<switcherVars, matcher, synth, config>>

\* A mousemove, click or keydown event reaches the document: the handler
\* runs when its listener is registered.
MouseMove(target) ==
  /\ "mousemove" \in picker.listeners
  /\ picker' = [handleMouseMove(picker, target) EXCEPT
                  !.last = <<"mousemove", target>>]
  /\ UNCHANGED <<switcherVars, matcher, synth, config>>

Click(target) ==
  /\ "click" \in picker.listeners
  /\ picker' = [handleClick(picker, target) EXCEPT
                  !.last = <<"click", target>>]
  /\ UNCHANGED <<switcherVars, matcher, synth, config>>

KeyDown(key) ==
  /\ "keydown" \in picker.listeners
  /\ picker' = [handleKeyDown(picker, key) EXCEPT !.last = <<"keydown", key>>]
  /\ UNCHANGED <<switcherVars, matcher, synth, config>>

\* highlightElement(selector) is called
Preview(selector) ==
  /\ Len(picker.previews) < MaxPreviews
  /\ picker' = [highlightElement(picker, selector) EXCEPT
                  !.last = <<"preview", selector>>]
  /\ UNCHANGED <<switcherVars, matcher, synth, config>>

\* the removal timer of the oldest preview fires (selector.ts:308)
PreviewTimeout ==
  /\ picker.previews # <<>>
  /\ picker' = [removeHighlight(picker, Head(picker.previews)) EXCEPT
                  !.previews = Tail(picker.previews),
                  !.last = <<"timeout", "">>]
  /\ UNCHANGED <<switcherVars, matcher, synth, config>>

PickerNext ==
  \/ Start
  \/ Stop
  \/ \E target \in PickElements : MouseMove(target)
  \/ \E target \in PickElements : Click(target)
  \/ \E key \in {"Escape", "a"} : KeyDown(key)
  \/ \E selector \in {"#user", "#wrap", "#none", ""} : Preview(selector)
  \/ PreviewTimeout

PickerSpec == PickerInit /\ [][PickerNext]_vars

\* --------------------------------------------- the domain check's operation
MatcherInit ==
  /\ matcher \in {[hostname |-> h, allowedDomains |-> a, result |-> <<>>] :
                     h \in Hostnames, a \in PatternLists}
  /\ picker = PickerStart("")
  /\ synth = SynthStart
  /\ config = ConfigStart
  /\ SwitcherIdle

\* the init effect asks whether the page's domain is allowed (App.tsx:42-58)
CheckDomain ==
  /\ matcher.result = <<>>
  /\ matcher' = [matcher EXCEPT !.result =
                    <<isCurrentDomainAllowed(matcher.hostname,
                                             matcher.allowedDomains)>>]
  /\ UNCHANGED <<switcherVars, picker, synth, config>>

MatcherNext == CheckDomain

MatcherSpec == MatcherInit /\ [][MatcherNext]_vars

\* ------------------------------------------- the synthesizer's operations
SynthInit ==
  /\ synth \in {[doc |-> d, el |-> e, selector |-> <<>>, found |-> <<>>] :
                  <<d, e>> \in {t \in Documents(MaxNodes) \X (1..(MaxNodes + 2)) :
                                  t[2] <= Len(t[1])}}
  /\ picker = PickerStart("")
  /\ matcher = MatcherStart
  /\ config = ConfigStart
  /\ SwitcherIdle

\* a committing click on the element: handleClick synthesizes its selector
\* (selector.ts:72)
Synthesize ==
  /\ synth.selector = <<>>
  /\ synth' = [synth EXCEPT !.selector = <<generateSelector(synth.doc, synth.el)>>]
  /\ UNCHANGED <<switcherVars, picker, matcher, config>>

\* the selector is queried against the same document
Resolve ==
  /\ synth.selector # <<>>
  /\ synth.found = <<>>
  /\ synth' = [synth EXCEPT !.found =
                  <<querySelectorAll(synth.doc, 0, synth.selector[1])>>]
  /\ UNCHANGED <<switcherVars, picker, matcher, config>>

SynthNext == Synthesize \/ Resolve

SynthSpec == SynthInit /\ [][SynthNext]_vars

\* ------------------------------------- the init effect's domain check
\* The init effect loads the configuration, asks isCurrentDomainAllowed and
\* calls checkAndFillPending only on an allowed hostname (App.tsx:42-58).
\* Here matcher holds the configured allowedDomains, the hostname and the
\* answer of the latest page load, and skipped, a history: the switches whose
\* payload was in the store at a load on a hostname that is not allowed.
GateHostnames == {"a.example.com", "notexample.com"}
GateDomains == {<<>>, <<<<"*.example.com">>>>}

\* the environments of the gated runs: the field "#user", a button or none
GateEnvs ==
  {e \in Envs : /\ e.fields = <<FieldConfigs(<<"#user">>)>>
                /\ e.loginButtonSelector \in {<<>>} \cup {<<s>> : s \in ButtonSelectors}}

\* The panel is on the page, so its hostname is allowed.
GateInit ==
  /\ picker = PickerStart("")
  /\ synth = SynthStart
  /\ config = ConfigStart
  /\ matcher \in {[hostname |-> h, allowedDomains |-> a, result |-> <<TRUE>>,
                   skipped |-> {}] :
                    <<h, a>> \in {t \in GateHostnames \X GateDomains :
                                    isCurrentDomainAllowed(t[1], t[2])}}
  /\ env \in GateEnvs
  /\ store = NoValue
  /\ storeSw = 0
  /\ switches = 0
  /\ loads = 0
  /\ ctx = [p \in Pages |-> FreshCtx(0)]
  /\ dom = [p \in Pages |-> {}]
  /\ localStorage = [p \in Pages |-> {"token"}]
  /\ sessionStorage = [p \in Pages |-> {"token"}]
  /\ navPending = [p \in Pages |-> FALSE]
  /\ applied = {}

GateLoad_ungated(p, hostname) ==
  /\ loads < MaxLoads
  /\ loads' = loads + 1
  /\ LET allowed == isCurrentDomainAllowed(hostname, matcher.allowedDomains)
     IN /\ matcher' = [matcher EXCEPT
                         !.hostname = hostname,
                         !.result = <<allowed>>,
                         !.skipped = IF ~allowed /\ store.t = "string"
                                       THEN @ \cup {storeSw} ELSE @]
        /\ ctx' = [ctx EXCEPT ![p] =
                     [FreshCtx(loads + 1) EXCEPT
                        !.pc = "get", !.got = store, !.sw = storeSw]]
  /\ dom' = [dom EXCEPT ![p] = {}]
  /\ navPending' = [navPending EXCEPT ![p] = FALSE]
  /\ applied' = IF Filled(ctx[p]) THEN applied \cup {ctx[p].sw} ELSE applied
  /\ UNCHANGED <<picker, synth, config, env, store, storeSw, switches, localStorage,
                 sessionStorage>>

\* A page load on hostname: init reads cfg.allowedDomains and runs
\* checkAndFillPending, which issues the get, only if allowed (App.tsx:44-55).
GateLoad(p, hostname) ==
  /\ loads < MaxLoads
  /\ loads' = loads + 1
  /\ LET allowed == isCurrentDomainAllowed(hostname, matcher.allowedDomains)
     IN /\ matcher' = [matcher EXCEPT
                         !.hostname = hostname,
                         !.result = <<allowed>>,
                         !.skipped = IF ~allowed /\ store.t = "string"
                                       THEN @ \cup {storeSw} ELSE @]
        /\ ctx' = [ctx EXCEPT ![p] =
                     IF allowed
                       THEN [FreshCtx(loads + 1) EXCEPT
                               !.pc = "get", !.got = store, !.sw = storeSw]
                       ELSE FreshCtx(loads + 1)]
  /\ dom' = [dom EXCEPT ![p] = {}]
  /\ navPending' = [navPending EXCEPT ![p] = FALSE]
  /\ applied' = IF Filled(ctx[p]) THEN applied \cup {ctx[p].sw} ELSE applied
  /\ UNCHANGED <<picker, synth, config, env, store, storeSw, switches, localStorage,
                 sessionStorage>>

\* handleSwitchEnv (App.tsx:282-294) is reached from the panel, which is
\* rendered only where the domain is allowed (App.tsx:532-534).
GateSwitch(p) ==
  /\ matcher.result = <<TRUE>>
  /\ switchEnvironment(p)

\* Time passes on a page that runs no resume phase: the stored payload ages
\* up to the boundary of its freshness window and past it.
Stay ==
  /\ matcher.result = <<FALSE>>
  /\ store.t = "string"
  /\ \A p \in Pages : ~navPending[p]
  /\ Deadlines = {}
  /\ \E d \in {timestampOf(store.json) + FRESHNESS + k : k \in {-1, 0, 1}} :
       /\ d > now
       /\ store' = Aged(store, d)
  /\ UNCHANGED <<picker, matcher, synth, config, env, storeSw, switches, loads, ctx,
                 dom, localStorage, sessionStorage, navPending, applied>>

GateNext ==
  \/ \E p \in Pages : GateSwitch(p)
  \/ \E p \in Pages, h \in GateHostnames : GateLoad(p, h)
  \/ \E p \in Pages : GetCallback(p)
  \/ \E p \in Pages : SettleDone(p)
  \/ \E p \in Pages : GapDone(p)
  \/ \E p \in Pages : WaitTimeout(p)
  \/ \E p \in Pages : ClickDelayDone(p)
  \/ \E p \in Pages : ClickWaitTimeout(p)
  \/ \E p \in Pages, e \in Elements : Mutate(p, e)
  \/ \E p \in Pages : StaleTimeout(p)
  \/ Tick
  \/ Stay

GateSpec == GateInit /\ [][GateNext]_vars

\* ------------------------------------- the configuration's operations
ConfigInit ==
  /\ config \in {[ConfigStart EXCEPT !.stored = v, !.initial = v] :
                   v \in StoredConfigs}
  /\ picker = PickerStart("")
  /\ matcher = MatcherStart
  /\ synth = SynthStart
  /\ SwitcherIdle

\* An operation is called in a tab and awaits loadConfig, whose get is
\* issued (storage.ts:55-57); handleDragEnd does not await savePanelPosition
\* (App.tsx:116), so a call may come while another is on its way.
Invoke(tab, k) ==
  /\ Len(config.ops) < MaxOps
  /\ config' = [config EXCEPT !.ops =
                  Append(@, [call |-> k, tab |-> tab, pc |-> "get",
                             value |-> <<>>])]
  /\ UNCHANGED <<switcherVars, picker, matcher, synth>>

\* The get of operation i calls back: loadConfig resolves with the stored
\* value or with the tab's defaultConfig object itself (storage.ts:58-59),
\* the operation changes that object and saveConfig issues the set of it
\* (storage.ts:65-68).
GetConfig(i) ==
  /\ i \in DOMAIN config.ops
  /\ config.ops[i].pc = "get"
  /\ LET o == config.ops[i]
         c == ConfigCalls[o.call]
         loaded == IF config.stored = <<>> THEN config.defaults[o.tab]
                   ELSE config.stored[1]
         next == mutate(c, loaded, i)
     IN config' =
          IF saves(c, loaded)
            THEN [config EXCEPT
                    !.ops[i].pc = "set",
                    !.ops[i].value = <<next>>,
                    !.defaults[o.tab] = IF config.stored = <<>> THEN next ELSE @]
            ELSE [config EXCEPT !.ops[i].pc = "done"]
  /\ UNCHANGED <<switcherVars, picker, matcher, synth>>

\* The set of operation i is carried out: the key takes the value that the
\* operation saved (storage.ts:67).
SetConfig(i) ==
  /\ i \in DOMAIN config.ops
  /\ config.ops[i].pc = "set"
  /\ config' = [config EXCEPT !.stored = config.ops[i].value,
                              !.ops[i].pc = "done"]
  /\ UNCHANGED <<switcherVars, picker, matcher, synth>>

ConfigNext ==
  \/ \E tab \in ConfigTabs, k \in DOMAIN ConfigCalls : Invoke(tab, k)
  \/ \E i \in 1..MaxOps : GetConfig(i)
  \/ \E i \in 1..MaxOps : SetConfig(i)

ConfigSpec == ConfigInit /\ [][ConfigNext]_vars

\* ------------------------------------------------------------ properties
\* the age that the freshness test of context c computed
AgeAtCheck(c) == c.checkedAt - c.fillData[1].timestamp

\* the callback of the get of page p runs in this step, on a payload
CheckStep(p) ==
  /\ ctx[p].pc = "get"
  /\ ctx[p].got.t = "string"
  /\ ctx'[p].load = ctx[p].load
  /\ ctx'[p].pc # "get"

\* C1: a payload that the resume phase finds older than the freshness window
\* of 10,000 ms is never applied: that phase fills no field, attempts none
\* and clicks nothing.
C1_StaleNeverApplied ==
  \A p \in Pages :
    (ctx[p].fillData # <<>> /\ AgeAtCheck(ctx[p]) > 10000)
      => (ctx[p].pc = "done" /\ ctx[p].log = <<>>)

C1_Witness ==
  \E p \in Pages :
    /\ ctx[p].fillData # <<>>
    /\ AgeAtCheck(ctx[p]) > 10000
    /\ fields(ctx[p]) # <<>>
    /\ Len(fields(ctx[p])[1]) > 0
    /\ ctx[p].pc = "done"
    /\ store = NoValue

\* C2 as stated: at the check, a payload of age exactly 10,000 ms is expired
\* (the phase ends without applying it) and one of age 9,999 ms is applied.
C2_BoundaryExpired ==
  [][\A p \in Pages :
       CheckStep(p) =>
         /\ (ctx'[p].checkedAt - ctx'[p].fillData[1].timestamp = 10000)
              => ctx'[p].pc = "done"
         /\ (ctx'[p].checkedAt - ctx'[p].fillData[1].timestamp = 9999)
              => ctx'[p].pc = "settle"]_vars

\* C2 amended: at the check, a payload of age exactly 10,000 ms is still fresh
\* and is applied, like one of age 9,999 ms; a payload of age 10,001 ms is
\* expired: it is removed and the phase ends without applying it.
C2_BoundaryFresh ==
  [][\A p \in Pages :
       CheckStep(p) =>
         LET age == ctx'[p].checkedAt - ctx'[p].fillData[1].timestamp
         IN /\ ctx'[p].checkedAt = now
            /\ age \in {9999, 10000} => ctx'[p].pc = "settle" /\ store' = store
            /\ age = 10001 => ctx'[p].pc = "done" /\ store' = NoValue]_vars

C2_Witness ==
  \E p \in Pages :
    /\ ctx[p].fillData # <<>>
    /\ AgeAtCheck(ctx[p]) = 10000
    /\ Filled(ctx[p])

Min2(S) == CHOOSE x \in S : \A y \in S : x <= y

\* the payload that context c has read is still in the store
StillStored(c) == c.got.t = "string" /\ storeSw = c.sw

\* C3: the payload staged by a switch is applied at most once: at most one
\* resume phase (one page load) fills fields from it.
C3_AppliedAtMostOnce ==
  \A p \in Pages : Filled(ctx[p]) => ctx[p].sw \notin applied

\* C4: once a resume phase that read a present payload has completed, that
\* payload is absent from the store, whatever the outcome.
C4_ConsumedOnCompletion ==
  \A p \in Pages :
    (ctx[p].pc = "done" /\ ctx[p].got.t = "string") => ~StillStored(ctx[p])

\* C5: the payload is removed right after the read: while a resume phase waits
\* out the settle delay or fills fields, its payload is not in the store.
C5_RemovedBeforeFill ==
  \A p \in Pages :
    ctx[p].pc \in {"settle", "wait", "gap"} => ~StillStored(ctx[p])

Ends(c) == {j \in DOMAIN c.log : c.log[j].op = "end"}
Starts(c) == {j \in DOMAIN c.log : c.log[j].op = "start"}

\* C7: the login button is clicked only after every field of the payload has
\* finished its fill attempt.
C7_ClickAfterAllFields ==
  \A p \in Pages :
    \A j \in DOMAIN ctx[p].log :
      ctx[p].log[j].op = "click" =>
        \A f \in 1..Len(ctx[p].fillData[1].fields) :
          \E k \in Ends(ctx[p]) : k < j /\ ctx[p].log[k].field = f

C7_Witness ==
  \E p \in Pages :
    /\ \E j \in DOMAIN ctx[p].log : ctx[p].log[j].op = "click"
    /\ Len(ctx[p].fillData[1].fields) = MaxFields
    /\ \E k \in Ends(ctx[p]) : ctx[p].log[k].value = 0
    /\ ctx[p].stale # {}

\* the calls and returns of fillField in the log of c, in order
Calls(c) == SelectSeq(c.log, LAMBDA e : e.op \in {"start", "end"})

\* C8: fillAllFields takes the fields in the declared order, one at a time:
\* the calls and returns of fillField alternate, the n-th call is for the
\* n-th field, and whatever is done to the page between them is done for
\* that field, on the element its selector names.
C8_FieldsInOrder ==
  \A p \in Pages :
    LET c == ctx[p]
        calls == Calls(c)
    IN /\ \A n \in DOMAIN calls :
            /\ calls[n].op = (IF n % 2 = 1 THEN "start" ELSE "end")
            /\ calls[n].field = (n + 1) \div 2
       /\ \A j \in DOMAIN c.log :
            c.log[j].field > 0 =>
              /\ c.log[j].field = Cardinality({k \in Starts(c) : k <= j})
              /\ c.log[j].target \in
                   {"", c.fillData[1].fields[c.log[j].field].selector,
                    c.fillData[1].fields[c.log[j].field].selector \o ":input"}
       /\ c.pc \in {"wait", "gap"} => c.idx = (Len(calls) + 1) \div 2

C8_Witness ==
  \E p \in Pages :
    /\ Len(Calls(ctx[p])) = 2 * MaxFields
    /\ Cardinality({j \in DOMAIN ctx[p].log : ctx[p].log[j].op = "value"}) = 2
    /\ ctx[p].stale # {}

\* fillAllFields of context c has returned
FillAllReturned(c) ==
  /\ c.fillData # <<>>
  /\ fields(c) # <<>>
  /\ ~(AgeAtCheck(c) > 10000)
  /\ c.pc \in {"clickDelay", "clickWait", "done"}

\* the element that selector sel names holds no input-like control
NoControl(sel) ==
  tagName(sel) \notin {"INPUT", "TEXTAREA"} /\ innerInput(sel) = <<>>

\* C9: fillAllFields does not abort on a failure: when it has returned, every
\* field of the sequence has had exactly one fill attempt, a successful one
\* assigned the field's value, and an attempt fails only when, as it ends,
\* the selector is malformed, names no element of the document, or names an
\* element without an input-like control.
C9_NoAbortOnFailure ==
  /\ [](\A p \in Pages :
          LET c == ctx[p]
          IN /\ FillAllReturned(c) =>
                  \A f \in 1..Len(fields(c)[1]) :
                    /\ Cardinality({j \in Starts(c) : c.log[j].field = f}) = 1
                    /\ Cardinality({j \in Ends(c) : c.log[j].field = f}) = 1
             /\ \A j \in Ends(c) :
                  c.log[j].value = 1 =>
                    \E k \in 1..(j - 1) :
                      /\ c.log[k].op = "value"
                      /\ c.log[k].field = c.log[j].field
                      /\ c.log[k].value = fields(c)[1][c.log[j].field].value)
  /\ [][\A p \in Pages :
          \A j \in DOMAIN ctx'[p].log \ DOMAIN ctx[p].log :
            LET e == ctx'[p].log[j]
                sel == fields(ctx'[p])[1][e.field].selector
            IN (e.op = "end" /\ e.value = 0) =>
                 \/ ~IsValidSelector(sel)
                 \/ sel \notin dom'[p]
                 \/ NoControl(sel)]_vars

C9_Witness ==
  \E p \in Pages :
    LET c == ctx[p]
    IN /\ FillAllReturned(c)
       /\ Len(fields(c)[1]) = MaxFields
       /\ c.log[Min2(Ends(c))].value = 0
       /\ \E j \in Ends(c) : c.log[j].value = 1

\* the wait of page p (of fillField or clickLoginButton) completes in this step
WaitEnds(p) ==
  /\ ctx[p].pc \in {"wait", "clickWait"}
  /\ ctx'[p].load = ctx[p].load
  /\ ctx'[p].pc # ctx[p].pc

\* the selector that context c waits for
WaitedSelector(c) ==
  IF c.pc = "wait" THEN fields(c)[1][c.idx].selector
  ELSE loginButtonSelector(c)[1]

\* the wait of page p completes in this step with the absent value
ResolvedAbsent(p) ==
  IF ctx[p].pc = "wait"
    THEN ctx'[p].log = Append(ctx[p].log, Ev("end", ctx[p].idx, "", 0))
    ELSE ctx'[p].log = ctx[p].log

\* C10: a wait whose selector still does not resolve when it completes
\* completes with the absent value, and not before its timeout of 5,000 ms
\* has elapsed, whatever other elements the document has gained meanwhile; a
\* wait that completes on a resolving selector does not complete absent.
C10_AbsentOnlyAtTimeout ==
  [][\A p \in Pages :
       WaitEnds(p) =>
         IF WaitedSelector(ctx[p]) \in dom'[p]
           THEN ~ResolvedAbsent(p)
           ELSE ResolvedAbsent(p) /\ now >= ctx[p].waitStart + 5000]_vars

C10_Witness ==
  \E p \in Pages :
    LET c == ctx[p]
    IN /\ c.pc = "gap"
       /\ c.log[Len(c.log)] = Ev("end", c.idx, "", 0)
       /\ IsValidSelector(fields(c)[1][c.idx].selector)
       /\ fields(c)[1][c.idx].selector \notin dom[p]
       /\ dom[p] # {}
       /\ now = c.waitStart + 5000
\* the log entries that this step appends for page p
Appended(p) ==
  {ctx'[p].log[j] : j \in DOMAIN ctx'[p].log \ DOMAIN ctx[p].log}

\* a wait of page p begins in this step
WaitBegins(p) ==
  /\ ctx'[p].load = ctx[p].load
  /\ ctx'[p].pc \in {"wait", "clickWait"}
  /\ ctx'[p].pc # ctx[p].pc \/ ctx'[p].idx # ctx[p].idx

\* C11: a wait completes exactly once with a single outcome.  A call on a
\* selector that resolves delivers the element in the same step and installs
\* nothing; otherwise one observer is connected for as long as the wait
\* is pending and for no longer, whichever path completes the wait; a pending
\* wait completes with the element when an addition makes its selector
\* resolve and with the absent value at its timeout; every field has at most
\* one outcome, and a step that completes no wait (the late timeout of a
\* resolved wait, a later mutation) leaves the log and the position of the
\* script as they are.
C11_WaitCompletesOnce ==
  /\ [](\A p \in Pages :
          LET c == ctx[p]
          IN /\ c.observers =
                  (IF c.pc \in {"wait", "clickWait"}
                     THEN {<<WaitedSelector(c), c.timer>>} ELSE {})
             /\ c.pc \in {"wait", "clickWait"} =>
                  c.timer = c.waitStart + 5000
             /\ \A f \in 1..c.idx :
                  Cardinality({j \in Ends(c) : c.log[j].field = f}) <= 1
             /\ Cardinality({j \in DOMAIN c.log : c.log[j].op = "click"}) <= 1)
  /\ [][\A p \in Pages :
          LET c == ctx[p]
              c2 == ctx'[p]
          IN /\ \A e \in Appended(p) :
                  (e.op = "start"
                     /\ fields(c2)[1][e.field].selector \in dom[p]) =>
                    /\ c2.pc = "gap"
                    /\ c2.observers = {}
                    /\ \E e2 \in Appended(p) :
                         e2.op = "end" /\ e2.field = e.field /\ e2.target # ""
             /\ WaitBegins(p) =>
                  /\ WaitedSelector(c2) \notin dom[p]
                  /\ c2.waitStart = now
                  /\ \A e \in Appended(p) : e.op = "start"
             /\ WaitEnds(p) =>
                  /\ c2.observers = {}
                  /\ IF WaitedSelector(c) \in dom'[p]
                       THEN /\ dom'[p] # dom[p]
                            /\ now <= c.timer
                            /\ ~ResolvedAbsent(p)
                            /\ \E e \in Appended(p) :
                                 e.target \in {WaitedSelector(c),
                                               WaitedSelector(c) \o ":input"}
                       ELSE ResolvedAbsent(p) /\ now = c.timer
             /\ (c2.load = c.load
                   /\ \/ Cardinality(c2.stale) < Cardinality(c.stale)
                      \/ (dom'[p] # dom[p]
                            /\ c.pc \notin {"wait", "clickWait"})) =>
                  /\ c2.log = c.log
                  /\ c2.pc = c.pc
                  /\ c2.idx = c.idx
                  /\ c2.timer = c.timer
                  /\ store' = store]_vars

C11_Witness ==
  \E p \in Pages :
    LET c == ctx[p]
    IN /\ c.pc = "wait"
       /\ c.idx = 2
       /\ c.observers # {}
       /\ c.stale # {}
       /\ Filled(c)
\* what fillField does to a control: focus, assignment, dispatched events
ControlOps == {"focus", "value", "input", "change", "keydown", "keyup"}

\* C12: fillField never raises and reports a failure as false.  When an
\* attempt ends on a selector that is malformed, that did not resolve within
\* the timeout, or that names an element which neither is nor holds an
\* input-like control, it returns false, nothing is focused or assigned and
\* no event is dispatched for that field, and fillAllFields goes on to its
\* delay; an attempt on a selector that found nothing ends no earlier than
\* the timeout of its wait.
C12_FillFailsClean ==
  /\ [](\A p \in Pages :
          \A j \in Ends(ctx[p]) :
            ctx[p].log[j].value = 0 =>
              \A k \in DOMAIN ctx[p].log :
                ctx[p].log[k].field = ctx[p].log[j].field =>
                  ctx[p].log[k].op \notin ControlOps)
  /\ [][\A p \in Pages :
          \A e \in Appended(p) :
            LET sel == fields(ctx'[p])[1][e.field].selector
            IN e.op = "end" =>
                 /\ ctx'[p].pc = "gap"
                 /\ ctx'[p].idx = e.field
                 /\ (~IsValidSelector(sel) \/ sel \notin dom'[p]
                       \/ NoControl(sel)) =>
                      /\ e.value = 0
                      /\ \A e2 \in Appended(p) : e2.op \notin ControlOps
                 /\ (IsValidSelector(sel) /\ sel \notin dom'[p]) =>
                      /\ ctx[p].pc = "wait"
                      /\ now = ctx[p].waitStart + 5000]_vars

C12_Witness ==
  \E p \in Pages :
    LET c == ctx[p]
    IN /\ \E j \in Ends(c) :
            /\ c.log[j] = Ev("end", c.log[j].field, "", 0)
            /\ IsValidSelector(fields(c)[1][c.log[j].field].selector)
            /\ fields(c)[1][c.log[j].field].selector \notin dom[p]
       /\ \E j \in Ends(c) :
            /\ c.log[j].value = 0
            /\ c.log[j].target \in dom[p]
            /\ NoControl(c.log[j].target)
       /\ \A k \in DOMAIN c.log : c.log[k].op \notin ControlOps
\* the three listeners of a session
SessionListeners == {"mousemove", "click", "keydown"}

\* the picker state s is idle, its cursor apart
Idle(s) ==
  /\ ~s.isSelecting
  /\ s.listeners = {}
  /\ s.currentHighlighted = <<>>
  /\ s.onSelectCallback = <<>>

\* C13: no two sessions have listeners registered at once.  The listeners
\* are registered exactly while the picker is selecting, at most one session
\* is started and not torn down, the one pending callback is that session's,
\* and a start while selecting tears the running session down first: no
\* element is the highlighted one and the snapshot of the one that was is
\* gone when the new session begins.
C13_OneSession ==
  /\ [](/\ picker.listeners =
             (IF picker.isSelecting THEN SessionListeners ELSE {})
        /\ Cardinality(picker.active) <= 1
        /\ picker.isSelecting =>
             /\ picker.active = {picker.sessions}
             /\ picker.onSelectCallback = <<picker.sessions>>
        /\ ~picker.isSelecting =>
             picker.active = {} /\ picker.onSelectCallback = <<>>)
  /\ [][(picker'.last = <<"start", "">> /\ picker.isSelecting) =>
          /\ picker'.sessions = picker.sessions + 1
          /\ picker'.currentHighlighted = <<>>
          /\ \A el \in PickElements :
               picker.currentHighlighted = <<el>> =>
                 el \notin DOMAIN picker'.originalStyles]_vars

C13_Witness ==
  /\ picker.last = <<"start", "">>
  /\ picker.restarted
  /\ picker.isSelecting
  /\ picker.sessions = 2
  /\ picker.calls = <<>>

\* C14: on a click outside the extension's own UI while selecting, the
\* callback of the session runs exactly once, with the synthesized selector,
\* in a picker that is idle already: listeners removed, highlight cleared,
\* pending callback cleared, and the cursor of the page restored.
C14_IdleBeforeCommit ==
  /\ [](\A i \in DOMAIN picker.calls :
          /\ Idle(picker.calls[i])
          /\ picker.calls[i].cursor = picker.pageCursor
          /\ \A j \in DOMAIN picker.calls :
               picker.calls[j].session = picker.calls[i].session => j = i)
  /\ [][\A target \in PickElements :
          (picker'.last = <<"click", target>> /\ ~insideApp(target)
             /\ picker.isSelecting) =>
            /\ Len(picker'.calls) = Len(picker.calls) + 1
            /\ picker'.calls[Len(picker'.calls)].session = picker.sessions
            /\ picker'.calls[Len(picker'.calls)].selector =
                 generateSelector(PickDocument, nodeOf(target))
            /\ Idle(picker')]_vars

\* C15: an Escape key press while selecting returns the picker to idle and
\* invokes no callback; a callback is invoked only by a click, and it is the
\* callback of the session that is selecting then, never the one of a
\* session that was cancelled.
C15_EscapeCancels ==
  /\ [][(picker'.last = <<"keydown", "Escape">> /\ picker.isSelecting) =>
          /\ Idle(picker')
          /\ picker'.calls = picker.calls]_vars
  /\ [][picker'.calls # picker.calls =>
          /\ picker'.last[1] = "click"
          /\ picker.isSelecting
          /\ picker'.calls =
               Append(picker.calls, picker'.calls[Len(picker'.calls)])
          /\ picker'.calls[Len(picker'.calls)].session = picker.sessions
          /\ \A i \in DOMAIN picker.calls :
               picker.calls[i].session < picker.sessions]_vars

C15_Witness ==
  /\ picker.last = <<"keydown", "Escape">>
  /\ ~picker.isSelecting
  /\ picker.sessions = 2
  /\ Len(picker.calls) = 1
  /\ picker.calls[1].session = 1

\* what of the picker and its page can be observed
Observable(s) ==
  [isSelecting |-> s.isSelecting, listeners |-> s.listeners,
   currentHighlighted |-> s.currentHighlighted,
   onSelectCallback |-> s.onSelectCallback, cursor |-> s.cursor,
   style |-> s.style]

\* C16: stop is idempotent and safe from idle: a stop in the idle state
\* changes nothing observable, and a second stop changes nothing that the
\* first left.
C16_StopIdempotent ==
  /\ [](stopSelecting(stopSelecting(picker)) = stopSelecting(picker))
  /\ [][(picker'.last = <<"stop", "">> /\ ~picker.isSelecting) =>
          Observable(picker') = Observable(picker)]_vars

\* C17: once the picker is idle and every preview timer has fired, every
\* element has the inline styles the page gave it and no snapshot remains.
C17_HighlightRestores ==
  (~picker.isSelecting /\ picker.previews = <<>>) =>
    /\ \A el \in PickElements : picker.style[el] = pageStyle(el)
    /\ DOMAIN picker.originalStyles = {}
\* C18: isAllowed is true for every hostname when the pattern list is absent
\* or empty.
C18_EmptyAllowsAll ==
  (matcher.result # <<>>
     /\ (matcher.allowedDomains = <<>> \/ matcher.allowedDomains[1] = <<>>)) =>
    matcher.result = <<TRUE>>

C18_Witness ==
  /\ matcher.result = <<TRUE>>
  /\ matcher.allowedDomains = << <<>> >>
  /\ matcher.hostname = "notexample.com"

\* the pattern p, surrounding whitespace apart, has the form *.R
IsWildcard(p) == LET t == trim(p) IN Len(t) >= 2 /\ SubSeq(t, 1, 2) = "*."

\* the R of a pattern of the form *.R
Remainder(p) == LET t == trim(p) IN SubSeq(t, 3, Len(t))

\* h is r, or something followed by "." and r, letter case apart
SuffixMatch(h, r) ==
  LET lh == toLowerCase(h)
      lr == toLowerCase(r)
  IN \/ lh = lr
     \/ \E k \in 0..Len(lh) : lh = SubSeq(lh, 1, k) \o "." \o lr

\* C19: a pattern of the form *.R matches exactly the hostnames that equal R
\* or end with "." followed by R, letter case apart: *.example.com matches
\* a.example.com, a.b.example.com and example.com, and not notexample.com.
C19_WildcardMatch ==
  /\ (matcher.result # <<>> /\ matcher.allowedDomains # <<>>
        /\ Len(matcher.allowedDomains[1]) = 1
        /\ IsWildcard(matcher.allowedDomains[1][1])) =>
       (matcher.result[1] <=>
          SuffixMatch(matcher.hostname, Remainder(matcher.allowedDomains[1][1])))
  /\ matchDomain("a.example.com", "*.example.com")
  /\ matchDomain("a.b.example.com", "*.example.com")
  /\ matchDomain("example.com", "*.example.com")
  /\ matchDomain("A.Example.COM", "*.example.com")
  /\ ~matchDomain("notexample.com", "*.example.com")

C19_Witness ==
  /\ matcher.result = <<TRUE>>
  /\ matcher.hostname = "a.b.example.com"
  /\ matcher.allowedDomains = << <<"*.EXAMPLE.com">> >>

\* the pattern p matches the hostname h, as the contract words it
Matches(h, p) ==
  IF IsWildcard(p) THEN SuffixMatch(h, Remainder(p))
  ELSE toLowerCase(h) = toLowerCase(trim(p))

\* C20: with a non-empty list, isAllowed is true exactly when the hostname
\* matches at least one pattern; a pattern without the *. prefix matches
\* only the identical hostname, letter case and the whitespace around the
\* pattern apart: example.com matches neither a.example.com nor
\* example.com.evil.org.
C20_ExactMatch ==
  /\ (matcher.result # <<>> /\ matcher.allowedDomains # <<>>
        /\ Len(matcher.allowedDomains[1]) > 0) =>
       (matcher.result[1] <=>
          \E i \in DOMAIN matcher.allowedDomains[1] :
            Matches(matcher.hostname, matcher.allowedDomains[1][i]))
  /\ matchDomain("example.com", "example.com")
  /\ matchDomain("A.Example.COM", " a.example.com ")
  /\ ~matchDomain("a.example.com", "example.com")
  /\ ~matchDomain("example.com.evil.org", "example.com")

C20_Witness ==
  /\ matcher.result = <<TRUE>>
  /\ matcher.hostname = "example.com"
  /\ matcher.allowedDomains = << <<"a.example.com", " Example.COM ">> >>
\* the id of el is carried by no other element of the document
UniqueId(doc, el) ==
  /\ doc[el].id # ""
  /\ \A o \in DOMAIN doc : doc[o].id = doc[el].id => o = el

\* el is not an input or textarea and holds one
IsWrapper(doc, el) ==
  /\ doc[el].tagName \notin {"INPUT", "TEXTAREA"}
  /\ \E d \in DOMAIN doc :
       d # el /\ contains(doc, el, d) /\ doc[d].tagName \in {"INPUT", "TEXTAREA"}

\* the selector is an id selector and resolves to el and nothing else
ResolvesById(el) ==
  /\ SubSeq(synth.selector[1], 1, 1) = "#"
  /\ ~synth.found[1].throws
  /\ synth.found[1].els = <<el>>

\* C21, as it is worded: for every element with a page-unique id, a wrapper
\* of an input or textarea included, the synthesized selector is the id
\* selector of that element and resolves to exactly that element.
C21_IdSelector ==
  (synth.found # <<>> /\ UniqueId(synth.doc, synth.el)) => ResolvesById(synth.el)

\* C21, amended: for every element with a page-unique id that is an input or
\* textarea, or holds none, the synthesized selector is the id selector of
\* that element and resolves to exactly that element; for a wrapper of an
\* input or textarea whose first such descendant has a page-unique id, it
\* is the id selector of that descendant.
C21_IdSelectorOfTarget ==
  synth.found # <<>> =>
    /\ (UniqueId(synth.doc, synth.el) /\ ~IsWrapper(synth.doc, synth.el)) =>
         ResolvesById(synth.el)
    /\ (IsWrapper(synth.doc, synth.el)
          /\ UniqueId(synth.doc, querySelectorInput(synth.doc, synth.el)[1])) =>
         ResolvesById(querySelectorInput(synth.doc, synth.el)[1])

C21_Witness ==
  /\ synth.found # <<>>
  /\ synth.doc[synth.el].id = "1.a"
  /\ UniqueId(synth.doc, synth.el)
  /\ synth.found[1].els = <<synth.el>>

\* the name of el is carried by no other element with the tag of el
UniqueName(doc, el) ==
  /\ doc[el].name # ""
  /\ \A o \in DOMAIN doc :
       (doc[o].tagName = doc[el].tagName /\ doc[o].name = doc[el].name) => o = el

\* the selector has the form tag[name=...] for the tag of el
IsNameSelector(doc, el, selector) ==
  LET prefix == toLowerCase(doc[el].tagName) \o "[name="
  IN /\ Len(selector) > Len(prefix) + 1
     /\ SubSeq(selector, 1, Len(prefix)) = prefix
     /\ SubSeq(selector, Len(selector), Len(selector)) = "]"

\* C22, as it is worded: for every element whose name is unique among the
\* elements with its tag, the synthesized selector has the form
\* tag[name=...] and resolves to exactly one element.
C22_NameSelector ==
  (synth.found # <<>> /\ UniqueName(synth.doc, synth.el)) =>
    /\ IsNameSelector(synth.doc, synth.el, synth.selector[1])
    /\ Len(synth.found[1].els) = 1

\* C22, amended: for every element without an id that is an input or
\* textarea, or holds none, and whose name is unique among the elements with
\* its tag, the synthesized selector has the form tag[name=...] and resolves
\* to exactly that element.
C22_NameSelectorWithoutId ==
  (synth.found # <<>> /\ UniqueName(synth.doc, synth.el)
     /\ synth.doc[synth.el].id = "" /\ ~IsWrapper(synth.doc, synth.el)) =>
    /\ IsNameSelector(synth.doc, synth.el, synth.selector[1])
    /\ ~synth.found[1].throws
    /\ synth.found[1].els = <<synth.el>>

C22_Witness ==
  /\ synth.found # <<>>
  /\ synth.doc[synth.el].name = "a\"b"
  /\ synth.selector = <<"textarea[name=\"a\\\"b\"]">>
  /\ synth.found[1].els = <<synth.el>>

\* C23: for every element of every document, document.body and elements
\* without id, name, class, placeholder and type included, the synthesized
\* selector is a non-empty string and the elements that it matches in the
\* document include the element that synthesis was applied to.
C23_ResolvesToElement ==
  synth.found # <<>> =>
    /\ synth.selector[1] # ""
    /\ ~synth.found[1].throws
    /\ \E i \in DOMAIN synth.found[1].els : synth.found[1].els[i] = synth.el

Control(sel) ==
  IF tagName(sel) \in {"INPUT", "TEXTAREA"} THEN sel ELSE innerInput(sel)[1]

\* C25: a successful fill does its steps in a fixed order on the chosen
\* control, the resolved element or the first input or textarea inside it:
\* focus, the assignment of field.value, then the bubbling events input,
\* change, keydown and keyup, so that every event is dispatched after the
\* assignment; nothing else is done for that field, and nothing is done to a
\* control but by a successful fill.
C25_FillOrder ==
  \A p \in Pages :
    LET c == ctx[p]
    IN /\ \A j \in Ends(c) :
            c.log[j].value = 1 =>
              LET f == c.log[j].field
                  el == Control(fields(c)[1][f].selector)
              IN /\ j > 7
                 /\ c.log[j - 7] = Ev("start", f, "", 0)
                 /\ c.log[j - 6] = Ev("focus", f, el, 0)
                 /\ c.log[j - 5] = Ev("value", f, el, fields(c)[1][f].value)
                 /\ \A k \in 1..4 :
                      /\ c.log[j - 5 + k].op =
                           <<"input", "change", "keydown", "keyup">>[k]
                      /\ c.log[j - 5 + k].field = f
                      /\ c.log[j - 5 + k].target = el
                      /\ c.log[j - 5 + k].bubbles
                 /\ c.log[j].target = el
                 /\ Cardinality({k \in DOMAIN c.log : c.log[k].field = f}) = 8
       /\ \A k \in DOMAIN c.log :
            c.log[k].op \in ControlOps =>
              \E j \in Ends(c) :
                j > k /\ c.log[j].field = c.log[k].field /\ c.log[j].value = 1

C25_Witness ==
  \E p \in Pages :
    LET c == ctx[p]
    IN /\ Len(c.log) = 16
       /\ c.log[8] = Ev("end", 1, "#user", 1)
       /\ c.log[16] = Ev("end", 2, "#wrap:input", 1)
       /\ c.stale # {}

\* the get callback of page p runs in this step and finds no payload
ReadsAbsent(p) ==
  /\ ctx[p].pc = "get"
  /\ ctx[p].got.t # "string"
  /\ ctx'[p].load = ctx[p].load
  /\ ctx'[p].pc # "get"

\* C26: when the resume phase reads the key and no payload is there, it does
\* nothing: it returns at once, no field is filled and no button clicked, no
\* timer and no observer is set up, and the persistent store is left as it
\* is.
C26_AbsentIsNoOp ==
  /\ [](\A p \in Pages :
          ctx[p].got.t # "string" =>
            /\ ctx[p].pc \in {"get", "done"}
            /\ ctx[p].log = <<>>
            /\ ctx[p].timer = 0
            /\ ctx[p].observers = {}
            /\ ctx[p].stale = {}
            /\ ctx[p].fillData = <<>>)
  /\ [][\A p \in Pages :
          ReadsAbsent(p) =>
            /\ ctx'[p] = [ctx[p] EXCEPT !.pc = "done"]
            /\ store' = store
            /\ dom' = dom]_vars

C26_Witness ==
  \E p \in Pages :
    /\ ctx[p].load = 1
    /\ ctx[p].pc = "done"
    /\ ctx[p].got = NoValue
    /\ store # NoValue
    /\ navPending[p]

\* positions of the log of c that hold a click of the login button
Clicks(c) == {j \in DOMAIN c.log : c.log[j].op = "click"}

\* the payload of c names a login button
HasButton(c) == loginButtonSelector(c) # <<>> /\ loginButtonSelector(c)[1] # ""

\* C27: in a resume phase that applies a fresh payload the login button is
\* clicked at most once, as the last thing the phase does.  When
\* fillAllFields has returned, the phase goes on to the click exactly when
\* loginButtonSelector is there and not empty, whatever the fill attempts
\* returned; the click phase ends with one click on the element when the
\* selector resolves, at once or before the timeout of its wait, and with
\* no click when it does not.
C27_ClickOnceIfResolved ==
  /\ [](\A p \in Pages :
          LET c == ctx[p]
          IN /\ Cardinality(Clicks(c)) <= 1
             /\ \A j \in Clicks(c) :
                  /\ FillAllReturned(c)
                  /\ HasButton(c)
                  /\ c.log[j] = Ev("click", 0, loginButtonSelector(c)[1], 0)
                  /\ j = Len(c.log)
                  /\ c.pc = "done"
             /\ c.pc \in {"clickDelay", "clickWait"} =>
                  FillAllReturned(c) /\ HasButton(c) /\ Clicks(c) = {})
  /\ [][\A p \in Pages :
          LET c == ctx[p]
              c2 == ctx'[p]
              sel == loginButtonSelector(c)[1]
          IN c2.load = c.load =>
               /\ (FillAllReturned(c2) /\ ~FillAllReturned(c)) =>
                    c2.pc = (IF HasButton(c2) THEN "clickDelay" ELSE "done")
               /\ (c.pc \in {"clickDelay", "clickWait"} /\ c2.pc = "done") =>
                    IF IsValidSelector(sel) /\ sel \in dom'[p]
                      THEN /\ c2.log = Append(c.log, Ev("click", 0, sel, 0))
                           /\ c.pc = "clickWait" => now <= c.waitStart + 5000
                      ELSE /\ c2.log = c.log
                           /\ c.pc = "clickWait" => now = c.waitStart + 5000
               /\ (c.pc = "clickDelay" /\ c2.pc = "clickWait") =>
                    IsValidSelector(sel) /\ sel \notin dom[p]]_vars

C27_Witness ==
  \E p \in Pages :
    LET c == ctx[p]
    IN /\ Clicks(c) # {}
       /\ Len(fields(c)[1]) = MaxFields
       /\ \A j \in Ends(c) : c.log[j].value = 0
       /\ \E j \in Ends(c) : c.log[j].target # ""

\* C28: the resume phase always terminates: whatever the payload (absent,
\* stale or fresh), the field list and the additions to the document, the
\* checkAndFillPending of a page load returns.
C28_ResumeTerminates ==
  \A p \in Pages : ctx[p].pc # "done" ~> ctx[p].pc = "done"

C28_Witness ==
  \E p \in Pages :
    LET c == ctx[p]
    IN /\ c.pc = "done"
       /\ FillAllReturned(c)
       /\ Len(fields(c)[1]) = MaxFields
       /\ \A f \in 1..MaxFields : IsValidSelector(fields(c)[1][f].selector)
       /\ \A j \in Ends(c) : c.log[j] = Ev("end", c.log[j].field, "", 0)
       /\ HasButton(c)
       /\ IsValidSelector(loginButtonSelector(c)[1])
       /\ Clicks(c) = {}
       /\ dom[p] = {}

\* the elements that carry the highlight styles
Highlighted(s) == {el \in PickElements : s.style[el] = HIGHLIGHT_STYLE}

\* the elements that a pending preview keeps highlighted
Previewed(s) == {s.previews[i] : i \in DOMAIN s.previews}

\* C29: while the picker is selecting, at most one element carries the
\* picker's highlight, and it is the hover target that the picker has
\* recorded; a hover move to another element outside the extension's UI
\* takes the highlight off the previous one; while the picker is idle no
\* element carries it.  The highlight that a pending preview shows for its
\* 1,500 ms is not counted.
C29_SingleHighlight ==
  /\ [](LET hover == Highlighted(picker) \ Previewed(picker)
        IN IF picker.isSelecting
             THEN /\ hover \subseteq {el \in PickElements :
                                         picker.currentHighlighted = <<el>>}
                  /\ \A el \in PickElements :
                       picker.currentHighlighted = <<el>> =>
                         el \in Highlighted(picker)
             ELSE hover = {} /\ picker.currentHighlighted = <<>>)
  /\ [][\A target \in PickElements :
          (picker'.last = <<"mousemove", target>> /\ ~insideApp(target)) =>
            /\ picker'.currentHighlighted = <<target>>
            /\ target \in Highlighted(picker')
            /\ Highlighted(picker') \ Previewed(picker') \subseteq {target}]_vars

\* C30: a click or a pointer move on an element inside the extension's own
\* UI while the picker is selecting leaves the session as it is: the picker
\* stays selecting with its three listeners and its callback, the
\* highlighted element, the snapshots and the styles are unchanged, and no
\* callback is invoked with any selector.
C30_OwnUiIgnored ==
  [][\A target \in PickElements : \A type \in {"click", "mousemove"} :
       (picker'.last = <<type, target>> /\ insideApp(target)
          /\ picker.isSelecting) =>
         /\ picker' = [picker EXCEPT !.last = <<type, target>>]
         /\ picker'.isSelecting
         /\ picker'.listeners = SessionListeners
         /\ picker'.onSelectCallback = <<picker.sessions>>
         /\ picker'.calls = picker.calls]_vars

C30_Witness ==
  /\ picker.last = <<"click", "#panel">>
  /\ picker.isSelecting
  /\ picker.currentHighlighted = <<"#wrap">>
  /\ picker.calls # <<>>

\* the payload of a stored value without its timestamp, which ages
Payload(v) == IF v.t = "string" THEN SubSeq(v.json, 1, Len(v.json) - 1) ELSE <<>>

\* C31: the resume phase runs on a page load only if the hostname is allowed
\* by the configured allowedDomains.  While the page of a load on a hostname
\* that is not allowed lasts, no get is issued, nothing is filled or clicked,
\* and the stored payload is neither removed nor rewritten (it only ages); a
\* load on an allowed hostname reads the store as it is, and if its check
\* finds that payload within the freshness window, the payload is applied.
C31_DomainGated ==
  /\ [](\A p \in Pages :
          matcher.result = <<FALSE>> =>
            /\ ctx[p].pc = "done"
            /\ ctx[p].got = NoValue
            /\ ctx[p].fillData = <<>>
            /\ ctx[p].log = <<>>)
  /\ [][/\ matcher'.result = <<FALSE>> =>
             /\ store'.t = store.t
             /\ Payload(store') = Payload(store)
             /\ storeSw' = storeSw
        /\ \A p \in Pages :
             /\ (loads' = loads + 1 /\ matcher'.result = <<TRUE>>) =>
                  /\ ctx'[p].pc = "get"
                  /\ ctx'[p].got = store
                  /\ ctx'[p].sw = storeSw
             /\ (/\ CheckStep(p)
                 /\ ctx[p].sw \in matcher.skipped
                 /\ now - timestampOf(ctx[p].got.json) <= FRESHNESS) =>
                  /\ ctx'[p].pc = "settle"
                  /\ ctx'[p].fillData # <<>>
                  /\ store' = store]_vars

\* a payload that a load on a hostname that is not allowed left in the store
\* has been filled in by a later load on an allowed hostname
C31_Witness ==
  \E p \in Pages :
    /\ matcher.allowedDomains # <<>>
    /\ matcher.result = <<TRUE>>
    /\ ctx[p].sw \in matcher.skipped
    /\ ctx[p].load > 1
    /\ Filled(ctx[p])

\* every operation that was called has returned
AllDone == \A i \in DOMAIN config.ops : config.ops[i].pc = "done"

\* the orders in which n operations can run one after the other
Orders(n) == {f \in [1..n -> 1..n] : \A i, j \in 1..n : f[i] = f[j] => i = j}

\* the value stored after the operations ops have run one after the other
\* in the given order, from the stored value v
RECURSIVE Serial(_, _, _)
Serial(v, ops, order) ==
  IF order = <<>> THEN v
  ELSE LET i == Head(order)
           c == ConfigCalls[ops[i].call]
           loaded == IF v = <<>> THEN defaultConfig ELSE v[1]
       IN Serial(IF saves(c, loaded) THEN <<mutate(c, loaded, i)>> ELSE v,
                 ops, Tail(order))

\* the properties of the configuration that the call c writes
Owned(c) ==
  CASE c.op \in {"addEnv", "updateEnv"} -> {"environments"}
    [] c.op = "deleteEnv" -> {"environments", "currentEnvId"}
    [] c.op = "setCurrentEnv" -> {"currentEnvId"}
    [] c.op = "savePanelPosition" -> {"panelPosition"}
    [] c.op = "saveAllowedDomains" -> {"allowedDomains"}

\* C32: configuration updates are not lost under interleaving.  Once the
\* operations that were called have all returned, the stored configuration
\* is the one that they leave when they run one after the other in some
\* order, so it shows the effect of each; and the write of an operation
\* changes no property of the stored configuration but those it owns.
C32_NoLostUpdate ==
  /\ [](AllDone =>
          config.stored \in {Serial(config.initial, config.ops, order) :
                               order \in Orders(Len(config.ops))})
  /\ [][\A i \in DOMAIN config.ops :
          (/\ config.ops[i].pc = "set"
           /\ config'.ops[i].pc = "done"
           /\ config.stored # <<>>) =>
            \A k \in DOMAIN defaultConfig \ Owned(ConfigCalls[config.ops[i].call]) :
              config'.stored[1][k] = config.stored[1][k]]_vars
====
